---------------------------- MODULE Spec2Model ----------------------------
(***************************************************************************)
(* A model of quickmath.hpp: vector, matrix and quaternion arithmetic.     *)
(*                                                                         *)
(* The library is a set of pure functions over float aggregates.  Each     *)
(* function is an operator below, computed the way the source computes     *)
(* it.  A float is modelled in exact arithmetic as an element of the       *)
(* field Q(sqrt 2), which holds the sines and cosines of every multiple    *)
(* of 45 degrees and the lengths of the axes used, plus the IEEE           *)
(* non-finite values a division by zero produces.  Rounding and the sign   *)
(* of zero are not modelled.                                               *)
(*                                                                         *)
(* The state is one call: the build switch QM_USE_SSE, the arguments, the  *)
(* function applied and what it returned.                                  *)
(***************************************************************************)
EXTENDS Integers, Sequences, FiniteSets, TLC

VARIABLES
    QM_USE_SSE, \* the compile-time switch of this build (TRUE: #define QM_USE_SSE 1)
    op,         \* the library function the caller has applied ("init": none yet)
    arg,        \* the caller's arguments (a record)
    res         \* the value returned

vars == <<QM_USE_SSE, op, arg, res>>

----------------------------------------------------------------------------
(* float: <<a, b, d>> is (a + b*sqrt(2)) / d with d > 0 and gcd(a,b,d) = 1. *)
(* d = 0 marks the non-finite values: NaN, +Inf, -Inf.                      *)

RECURSIVE Gcd(_, _)
Gcd(m, n) == IF n = 0 THEN m ELSE Gcd(n, m % n)

Abs(n) == IF n < 0 THEN -n ELSE n

Norm(a, b, d) ==
    LET s == IF d < 0 THEN -1 ELSE 1
        g == Gcd(Gcd(Abs(a), Abs(b)), Abs(d))
    IN  IF d = 1 THEN <<a, b, d>>
        ELSE <<(s * a) \div g, (s * b) \div g, (s * d) \div g>>

F(n) == <<n, 0, 1>>

Frac(n, d) == Norm(n, 0, d)

Sqrt2 == <<0, 1, 1>>

NaN == <<0, 0, 0>>

PosInf == <<1, 0, 0>>

NegInf == <<-1, 0, 0>>

IsFinite(x) == x[3] # 0

IsNaN(x) == x = NaN

\* the sign of a finite a + b*sqrt(2), or of an infinity
Sign(x) ==
    LET a == x[1]
        b == x[2]
    IN  IF a = 0 /\ b = 0 THEN 0
        ELSE IF a >= 0 /\ b >= 0 THEN 1
        ELSE IF a <= 0 /\ b <= 0 THEN -1
        ELSE IF a > 0 THEN (IF a * a > 2 * b * b THEN 1 ELSE -1)
        ELSE (IF 2 * b * b > a * a THEN 1 ELSE -1)

InfOf(s) == IF s > 0 THEN PosInf ELSE NegInf

FNeg(x) == <<-x[1], -x[2], x[3]>>

FAdd(x, y) ==
    IF IsFinite(x) /\ IsFinite(y)
    THEN Norm(x[1] * y[3] + y[1] * x[3], x[2] * y[3] + y[2] * x[3], x[3] * y[3])
    ELSE IF IsNaN(x) \/ IsNaN(y) THEN NaN
    ELSE IF IsFinite(y) THEN x
    ELSE IF IsFinite(x) THEN y
    ELSE IF x = y THEN x ELSE NaN

FSub(x, y) == FAdd(x, FNeg(y))

FMul(x, y) ==
    IF IsFinite(x) /\ IsFinite(y)
    THEN Norm(x[1] * y[1] + 2 * x[2] * y[2], x[1] * y[2] + x[2] * y[1], x[3] * y[3])
    ELSE IF IsNaN(x) \/ IsNaN(y) \/ Sign(x) = 0 \/ Sign(y) = 0 THEN NaN
    ELSE InfOf(Sign(x) * Sign(y))

\* 1 / (a + b*sqrt 2) = (a - b*sqrt 2) / (a^2 - 2 b^2), for a finite non-zero x
Recip(x) == Norm(x[1] * x[3], -(x[2] * x[3]), x[1] * x[1] - 2 * x[2] * x[2])

FDiv(x, y) ==
    IF IsNaN(x) \/ IsNaN(y) THEN NaN
    ELSE IF ~IsFinite(y) THEN (IF IsFinite(x) THEN F(0) ELSE NaN)
    ELSE IF ~IsFinite(x) THEN InfOf(Sign(x) * (IF Sign(y) < 0 THEN -1 ELSE 1))
    ELSE IF Sign(y) = 0 THEN (IF Sign(x) = 0 THEN NaN ELSE InfOf(Sign(x)))
    ELSE FMul(x, Recip(y))

\* x != y on floats: NaN differs from everything, itself included
FNe(x, y) == IsNaN(x) \/ IsNaN(y) \/ x # y

FEq(x, y) == ~FNe(x, y)

IsSquare(n) == \E r \in 0..n : r * r = n

Isqrt(n) == CHOOSE r \in 0..n : r * r = n

\* the values whose square root is again in the field: p/q or 2*p/q with p, q squares
ExactSqrt(x) ==
    /\ IsFinite(x)
    /\ x[2] = 0
    /\ x[1] >= 0
    /\ IF IsSquare(x[1]) /\ IsSquare(x[3])
       THEN TRUE
       ELSE LET h == Norm(x[1], 0, 2 * x[3]) IN IsSquare(h[1]) /\ IsSquare(h[3])

QM_SQRTF(x) ==
    IF IsSquare(x[1]) /\ IsSquare(x[3])
    THEN <<Isqrt(x[1]), 0, Isqrt(x[3])>>
    ELSE LET h == Norm(x[1], 0, 2 * x[3]) IN <<0, Isqrt(h[1]), Isqrt(h[3])>>


----------------------------------------------------------------------------
(* The value types.  A union's views coincide: QMvec4 and QMquaternion are  *)
(* x, y, z, w and also one __m128 (packed); a matrix is m[column][row] and  *)
(* also an array of column vectors.                                         *)

QMvec2(x, y) == [x |-> x, y |-> y]

QMvec3(x, y, z) == [x |-> x, y |-> y, z |-> z]

\* QMvec3(QMvec2 _xy, float _z)
QMvec3_xy_z(_xy, _z) == QMvec3(_xy.x, _xy.y, _z)

QMvec3_xy_z_params == <<"QMvec2", "float">>

\* QMvec3(float _x, QMvec3 _yz)
QMvec3_x_yz(_x, _yz) == QMvec3(_x, _yz.x, _yz.y)

QMvec3_x_yz_params == <<"float", "QMvec3">>

QMvec4(x, y, z, w) == [x |-> x, y |-> y, z |-> z, w |-> w]

\* QMvec4(QMvec3 _xyz, float _w)
QMvec4_xyz_w(_xyz, _w) == QMvec4(_xyz.x, _xyz.y, _xyz.z, _w)

\* QMvec4(float _x, QMvec3 _yzw)
QMvec4_x_yzw(_x, _yzw) == QMvec4(_x, _yzw.x, _yzw.y, _yzw.z)

\* QMvec4(QMvec2 _xy, QMvec2 _zw)
QMvec4_xy_zw(_xy, _zw) == QMvec4(_xy.x, _xy.y, _zw.x, _zw.y)

QMvec4_xyz_w_params == <<"QMvec3", "float">>

QMvec4_x_yzw_params == <<"float", "QMvec3">>

QMvec4_xy_zw_params == <<"QMvec2", "QMvec2">>

QMquaternion(x, y, z, w) == [x |-> x, y |-> y, z |-> z, w |-> w]

\* the __m128 view of a QMvec4 or QMquaternion: lanes 0..3 are x, y, z, w
packed(v) == <<v.x, v.y, v.z, v.w>>

\* the x, y, z, w view of an __m128
unpacked(p) == [x |-> p[1], y |-> p[2], z |-> p[3], w |-> p[4]]

\* float m[3][3] filled in memory order: m[0][0], m[0][1], m[0][2], m[1][0], ...
QMmat3(s) == [i \in 0..2 |-> [j \in 0..2 |-> s[3 * i + j + 1]]]

\* float m[4][4] filled in memory order
QMmat4(s) == [i \in 0..3 |-> [j \in 0..3 |-> s[4 * i + j + 1]]]

\* packed[i] of a QMmat4: column i as an __m128
column(m, i) == <<m[i][0], m[i][1], m[i][2], m[i][3]>>

\* the QMmat4 whose packed[0..3] are the four __m128 given
QMmat4_packed(c0, c1, c2, c3) == QMmat4(c0 \o c1 \o c2 \o c3)

----------------------------------------------------------------------------
(* The SSE intrinsics the header uses, lane by lane (lane i is p[i + 1]).   *)

_mm_set1_ps(s) == <<s, s, s, s>>

_mm_setr_ps(a, b, c, d) == <<a, b, c, d>>

_mm_add_ps(a, b) == <<FAdd(a[1], b[1]), FAdd(a[2], b[2]), FAdd(a[3], b[3]), FAdd(a[4], b[4])>>

_mm_sub_ps(a, b) == <<FSub(a[1], b[1]), FSub(a[2], b[2]), FSub(a[3], b[3]), FSub(a[4], b[4])>>

_mm_mul_ps(a, b) == <<FMul(a[1], b[1]), FMul(a[2], b[2]), FMul(a[3], b[3]), FMul(a[4], b[4])>>

_mm_div_ps(a, b) == <<FDiv(a[1], b[1]), FDiv(a[2], b[2]), FDiv(a[3], b[3]), FDiv(a[4], b[4])>>

_MM_SHUFFLE(z, y, x, w) == z * 64 + y * 16 + x * 4 + w

_mm_shuffle_ps(a, b, imm) ==
    <<a[(imm % 4) + 1], a[((imm \div 4) % 4) + 1],
      b[((imm \div 16) % 4) + 1], b[((imm \div 64) % 4) + 1]>>

_mm_hadd_ps(a, b) ==
    <<FAdd(a[1], a[2]), FAdd(a[3], a[4]), FAdd(b[1], b[2]), FAdd(b[3], b[4])>>

_mm_addsub_ps(a, b) ==
    <<FSub(a[1], b[1]), FAdd(a[2], b[2]), FSub(a[3], b[3]), FAdd(a[4], b[4])>>

\* the lowest lane, as _mm_store_ss writes it
_mm_store_ss(r) == r[1]

\* the float -0.0f, used only as a sign-bit mask
NegZero == <<0, 0, -1>>

\* xor with a mask of 0.0f / -0.0f lanes: -0.0f flips the lane's sign bit
FlipIf(m, x) == IF m = NegZero THEN FNeg(x) ELSE x

_mm_xor_ps(a, mask) ==
    <<FlipIf(mask[1], a[1]), FlipIf(mask[2], a[2]), FlipIf(mask[3], a[3]), FlipIf(mask[4], a[4])>>

_mm_unpacklo_ps(a, b) == <<a[1], b[1], a[2], b[2]>>

_mm_unpackhi_ps(a, b) == <<a[3], b[3], a[4], b[4]>>

_mm_movelh_ps(a, b) == <<a[1], a[2], b[1], b[2]>>

_mm_movehl_ps(a, b) == <<b[3], b[4], a[3], a[4]>>

\* rows r0..r3 in, the four transposed rows out
_MM_TRANSPOSE4_PS(r0, r1, r2, r3) ==
    LET t0 == _mm_unpacklo_ps(r0, r1)
        t1 == _mm_unpacklo_ps(r2, r3)
        t2 == _mm_unpackhi_ps(r0, r1)
        t3 == _mm_unpackhi_ps(r2, r3)
    IN  <<_mm_movelh_ps(t0, t1), _mm_movehl_ps(t1, t0),
          _mm_movelh_ps(t2, t3), _mm_movehl_ps(t3, t2)>>

----------------------------------------------------------------------------
(* Helpers.  An angle in radians is kept as its coefficient of pi, so       *)
(* deg_to_rad multiplies by pi/180 = (1/180) pi.                            *)

QM_deg_to_rad(deg) == FMul(deg, Frac(1, 180))

\* the eighth of the circle a multiple of pi/4 falls on
Octant(rad) == (FMul(rad, F(4))[1]) % 8

\* whether sinf and cosf of rad stay in the field: rad is a multiple of pi/4
ExactAngle(rad) == IsFinite(rad) /\ LET q == FMul(rad, F(4)) IN q[2] = 0 /\ q[3] = 1

Half == Frac(1, 2)

HalfSqrt2 == FMul(Sqrt2, Half)

QM_SINF(rad) ==
    LET k == Octant(rad)
    IN  CASE k = 0 -> F(0)
          [] k = 1 -> HalfSqrt2
          [] k = 2 -> F(1)
          [] k = 3 -> HalfSqrt2
          [] k = 4 -> F(0)
          [] k = 5 -> FNeg(HalfSqrt2)
          [] k = 6 -> F(-1)
          [] k = 7 -> FNeg(HalfSqrt2)

QM_COSF(rad) ==
    LET k == Octant(rad)
    IN  CASE k = 0 -> F(1)
          [] k = 1 -> HalfSqrt2
          [] k = 2 -> F(0)
          [] k = 3 -> FNeg(HalfSqrt2)
          [] k = 4 -> F(-1)
          [] k = 5 -> FNeg(HalfSqrt2)
          [] k = 6 -> F(0)
          [] k = 7 -> HalfSqrt2

\* the cosines of the multiples of pi/4 in [0, pi]: where acosf stays in the field
ExactAcos(x) == x \in {F(1), HalfSqrt2, F(0), FNeg(HalfSqrt2), F(-1)}

\* acosf, in the unit of the angles (pi)
QM_ACOSF(x) ==
    CASE x = F(1) -> F(0)
      [] x = HalfSqrt2 -> Frac(1, 4)
      [] x = F(0) -> Frac(1, 2)
      [] x = FNeg(HalfSqrt2) -> Frac(3, 4)
      [] x = F(-1) -> F(1)

\* the eighth of the half circle a multiple of pi/8 falls on
Octave(rad) == (FMul(rad, F(8))[1]) % 8

\* whether tanf of rad stays in the field: a multiple of pi/8, no odd multiple of pi/2
ExactTan(rad) ==
    IsFinite(rad) /\ LET q == FMul(rad, F(8)) IN q[2] = 0 /\ q[3] = 1 /\ q[1] % 8 # 4

QM_TANF(rad) ==
    LET k == Octave(rad)
    IN  CASE k = 0 -> F(0)
          [] k = 1 -> FSub(Sqrt2, F(1))
          [] k = 2 -> F(1)
          [] k = 3 -> FAdd(Sqrt2, F(1))
          [] k = 5 -> FNeg(FAdd(Sqrt2, F(1)))
          [] k = 6 -> F(-1)
          [] k = 7 -> FNeg(FSub(Sqrt2, F(1)))

QM_mat4_mult_column_sse(c1, m2) ==
    LET r0 == _mm_mul_ps(_mm_shuffle_ps(c1, c1, _MM_SHUFFLE(0, 0, 0, 0)), column(m2, 0))
        r1 == _mm_add_ps(r0, _mm_mul_ps(_mm_shuffle_ps(c1, c1, _MM_SHUFFLE(1, 1, 1, 1)), column(m2, 1)))
        r2 == _mm_add_ps(r1, _mm_mul_ps(_mm_shuffle_ps(c1, c1, _MM_SHUFFLE(2, 2, 2, 2)), column(m2, 2)))
        r3 == _mm_add_ps(r2, _mm_mul_ps(_mm_shuffle_ps(c1, c1, _MM_SHUFFLE(3, 3, 3, 3)), column(m2, 3)))
    IN  r3


----------------------------------------------------------------------------
(* Vector functions.                                                        *)

\* operator-(QMvec3, QMvec3)
sub_vec3_vec3(v1, v2) == QMvec3(FSub(v1.x, v2.x), FSub(v1.y, v2.y), FSub(v1.z, v2.z))

\* operator/(QMvec2, float)
div_vec2_float(v, s) == QMvec2(FDiv(v.x, s), FDiv(v.y, s))

\* operator/(QMvec3, float)
div_vec3_float(v, s) == QMvec3(FDiv(v.x, s), FDiv(v.y, s), FDiv(v.z, s))

\* operator/(QMvec4, float)
div_vec4_float(v, s) ==
    IF QM_USE_SSE
    THEN LET scale == _mm_set1_ps(s) IN unpacked(_mm_div_ps(packed(v), scale))
    ELSE QMvec4(FDiv(v.x, s), FDiv(v.y, s), FDiv(v.z, s), FDiv(v.w, s))

QM_dot_vec2(v1, v2) == FAdd(FMul(v1.x, v2.x), FMul(v1.y, v2.y))

QM_dot_vec3(v1, v2) == FAdd(FAdd(FMul(v1.x, v2.x), FMul(v1.y, v2.y)), FMul(v1.z, v2.z))

QM_dot_vec4(v1, v2) ==
    IF QM_USE_SSE
    THEN LET r  == _mm_mul_ps(packed(v1), packed(v2))
             r2 == _mm_hadd_ps(r, r)
             r3 == _mm_hadd_ps(r2, r2)
         IN  _mm_store_ss(r3)
    ELSE FAdd(FAdd(FAdd(FMul(v1.x, v2.x), FMul(v1.y, v2.y)), FMul(v1.z, v2.z)), FMul(v1.w, v2.w))

\* QM_cross with the two products of its z component added
QM_cross_added_z(v1, v2) ==
    LET rx == FSub(FMul(v1.y, v2.z), FMul(v1.z, v2.y))
        ry == FSub(FMul(v1.z, v2.x), FMul(v1.x, v2.z))
        rz == FAdd(FMul(v1.x, v2.y), FMul(v1.y, v2.x))
    IN  QMvec3(rx, ry, rz)

\* QM_cross with the operands of its y component exchanged
QM_cross_swapped_y(v1, v2) ==
    LET rx == FSub(FMul(v1.y, v2.z), FMul(v1.z, v2.y))
        ry == FSub(FMul(v1.x, v2.z), FMul(v1.z, v2.x))
        rz == FSub(FMul(v1.x, v2.y), FMul(v1.y, v2.x))
    IN  QMvec3(rx, ry, rz)

QM_cross(v1, v2) ==
    LET rx == FSub(FMul(v1.y, v2.z), FMul(v1.z, v2.y))
        ry == FSub(FMul(v1.z, v2.x), FMul(v1.x, v2.z))
        rz == FSub(FMul(v1.x, v2.y), FMul(v1.y, v2.x))
    IN  QMvec3(rx, ry, rz)

QM_length_vec2(v) == QM_SQRTF(QM_dot_vec2(v, v))

QM_length_vec3(v) == QM_SQRTF(QM_dot_vec3(v, v))

QM_length_vec4(v) == QM_SQRTF(QM_dot_vec4(v, v))

\* QMvec2 result; is zero-initialised (float v[2] = {})
QM_normalize_vec2(v) ==
    LET len == QM_length_vec2(v)
    IN  IF FNe(len, F(0)) THEN div_vec2_float(v, len) ELSE QMvec2(F(0), F(0))

QM_normalize_vec3(v) ==
    LET len == QM_length_vec3(v)
    IN  IF FNe(len, F(0)) THEN div_vec3_float(v, len) ELSE QMvec3(F(0), F(0), F(0))

\* QM_normalize(QMvec4) with the test of len its 2-d and 3-d versions make
QM_normalize_vec4_guarded(v) ==
    LET len == QM_length_vec4(v)
    IN  IF FNe(len, F(0)) THEN div_vec4_float(v, len) ELSE QMvec4(F(0), F(0), F(0), F(0))

\* no test of len here
QM_normalize_vec4(v) ==
    LET len == QM_length_vec4(v)
    IN  div_vec4_float(v, len)

----------------------------------------------------------------------------
(* Matrix functions.                                                        *)

QM_mat3_identity ==
    QMmat3(<<F(1), F(0), F(0),
             F(0), F(1), F(0),
             F(0), F(0), F(1)>>)

QM_mat4_identity ==
    QMmat4(<<F(1), F(0), F(0), F(0),
             F(0), F(1), F(0), F(0),
             F(0), F(0), F(1), F(0),
             F(0), F(0), F(0), F(1)>>)

\* operator*(QMmat3, QMmat3)
mul_mat3_mat3(m1, m2) ==
    LET r00 == FAdd(FAdd(FMul(m1[0][0], m2[0][0]), FMul(m1[1][0], m2[0][1])), FMul(m1[2][0], m2[0][2]))
        r01 == FAdd(FAdd(FMul(m1[0][1], m2[0][0]), FMul(m1[1][1], m2[0][1])), FMul(m1[2][1], m2[0][2]))
        r02 == FAdd(FAdd(FMul(m1[0][2], m2[0][0]), FMul(m1[1][2], m2[0][1])), FMul(m1[2][2], m2[0][2]))
        r10 == FAdd(FAdd(FMul(m1[0][0], m2[1][0]), FMul(m1[1][0], m2[1][1])), FMul(m1[2][0], m2[1][2]))
        r11 == FAdd(FAdd(FMul(m1[0][1], m2[1][0]), FMul(m1[1][1], m2[1][1])), FMul(m1[2][1], m2[1][2]))
        r12 == FAdd(FAdd(FMul(m1[0][2], m2[1][0]), FMul(m1[1][2], m2[1][1])), FMul(m1[2][2], m2[1][2]))
        r20 == FAdd(FAdd(FMul(m1[0][0], m2[2][0]), FMul(m1[1][0], m2[2][1])), FMul(m1[2][0], m2[2][2]))
        r21 == FAdd(FAdd(FMul(m1[0][1], m2[2][0]), FMul(m1[1][1], m2[2][1])), FMul(m1[2][1], m2[2][2]))
        r22 == FAdd(FAdd(FMul(m1[0][2], m2[2][0]), FMul(m1[1][2], m2[2][1])), FMul(m1[2][2], m2[2][2]))
    IN  QMmat3(<<r00, r01, r02,
              r10, r11, r12,
              r20, r21, r22>>)

mul_mat4_mat4_scalar(m1, m2) ==
    LET r00 == FAdd(FAdd(FAdd(FMul(m1[0][0], m2[0][0]), FMul(m1[1][0], m2[0][1])), FMul(m1[2][0], m2[0][2])), FMul(m1[3][0], m2[0][3]))
        r01 == FAdd(FAdd(FAdd(FMul(m1[0][1], m2[0][0]), FMul(m1[1][1], m2[0][1])), FMul(m1[2][1], m2[0][2])), FMul(m1[3][1], m2[0][3]))
        r02 == FAdd(FAdd(FAdd(FMul(m1[0][2], m2[0][0]), FMul(m1[1][2], m2[0][1])), FMul(m1[2][2], m2[0][2])), FMul(m1[3][2], m2[0][3]))
        r03 == FAdd(FAdd(FAdd(FMul(m1[0][3], m2[0][0]), FMul(m1[1][3], m2[0][1])), FMul(m1[2][3], m2[0][2])), FMul(m1[3][3], m2[0][3]))
        r10 == FAdd(FAdd(FAdd(FMul(m1[0][0], m2[1][0]), FMul(m1[1][0], m2[1][1])), FMul(m1[2][0], m2[1][2])), FMul(m1[3][0], m2[1][3]))
        r11 == FAdd(FAdd(FAdd(FMul(m1[0][1], m2[1][0]), FMul(m1[1][1], m2[1][1])), FMul(m1[2][1], m2[1][2])), FMul(m1[3][1], m2[1][3]))
        r12 == FAdd(FAdd(FAdd(FMul(m1[0][2], m2[1][0]), FMul(m1[1][2], m2[1][1])), FMul(m1[2][2], m2[1][2])), FMul(m1[3][2], m2[1][3]))
        r13 == FAdd(FAdd(FAdd(FMul(m1[0][3], m2[1][0]), FMul(m1[1][3], m2[1][1])), FMul(m1[2][3], m2[1][2])), FMul(m1[3][3], m2[1][3]))
        r20 == FAdd(FAdd(FAdd(FMul(m1[0][0], m2[2][0]), FMul(m1[1][0], m2[2][1])), FMul(m1[2][0], m2[2][2])), FMul(m1[3][0], m2[2][3]))
        r21 == FAdd(FAdd(FAdd(FMul(m1[0][1], m2[2][0]), FMul(m1[1][1], m2[2][1])), FMul(m1[2][1], m2[2][2])), FMul(m1[3][1], m2[2][3]))
        r22 == FAdd(FAdd(FAdd(FMul(m1[0][2], m2[2][0]), FMul(m1[1][2], m2[2][1])), FMul(m1[2][2], m2[2][2])), FMul(m1[3][2], m2[2][3]))
        r23 == FAdd(FAdd(FAdd(FMul(m1[0][3], m2[2][0]), FMul(m1[1][3], m2[2][1])), FMul(m1[2][3], m2[2][2])), FMul(m1[3][3], m2[2][3]))
        r30 == FAdd(FAdd(FAdd(FMul(m1[0][0], m2[3][0]), FMul(m1[1][0], m2[3][1])), FMul(m1[2][0], m2[3][2])), FMul(m1[3][0], m2[3][3]))
        r31 == FAdd(FAdd(FAdd(FMul(m1[0][1], m2[3][0]), FMul(m1[1][1], m2[3][1])), FMul(m1[2][1], m2[3][2])), FMul(m1[3][1], m2[3][3]))
        r32 == FAdd(FAdd(FAdd(FMul(m1[0][2], m2[3][0]), FMul(m1[1][2], m2[3][1])), FMul(m1[2][2], m2[3][2])), FMul(m1[3][2], m2[3][3]))
        r33 == FAdd(FAdd(FAdd(FMul(m1[0][3], m2[3][0]), FMul(m1[1][3], m2[3][1])), FMul(m1[2][3], m2[3][2])), FMul(m1[3][3], m2[3][3]))
    IN  QMmat4(<<r00, r01, r02, r03,
              r10, r11, r12, r13,
              r20, r21, r22, r23,
              r30, r31, r32, r33>>)

\* operator*(QMmat3, QMvec3) reading m as row-major: m[i][k] in place of m[k][i]
mul_mat3_vec3_row_major(m, v) ==
    LET rx == FAdd(FAdd(FMul(m[0][0], v.x), FMul(m[0][1], v.y)), FMul(m[0][2], v.z))
        ry == FAdd(FAdd(FMul(m[1][0], v.x), FMul(m[1][1], v.y)), FMul(m[1][2], v.z))
        rz == FAdd(FAdd(FMul(m[2][0], v.x), FMul(m[2][1], v.y)), FMul(m[2][2], v.z))
    IN  QMvec3(rx, ry, rz)

\* operator*(QMmat3, QMvec3)
mul_mat3_vec3(m, v) ==
    LET rx == FAdd(FAdd(FMul(m[0][0], v.x), FMul(m[1][0], v.y)), FMul(m[2][0], v.z))
        ry == FAdd(FAdd(FMul(m[0][1], v.x), FMul(m[1][1], v.y)), FMul(m[2][1], v.z))
        rz == FAdd(FAdd(FMul(m[0][2], v.x), FMul(m[1][2], v.y)), FMul(m[2][2], v.z))
    IN  QMvec3(rx, ry, rz)

mul_mat4_vec4_scalar(m, v) ==
    LET rx == FAdd(FAdd(FAdd(FMul(m[0][0], v.x), FMul(m[1][0], v.y)), FMul(m[2][0], v.z)), FMul(m[3][0], v.w))
        ry == FAdd(FAdd(FAdd(FMul(m[0][1], v.x), FMul(m[1][1], v.y)), FMul(m[2][1], v.z)), FMul(m[3][1], v.w))
        rz == FAdd(FAdd(FAdd(FMul(m[0][2], v.x), FMul(m[1][2], v.y)), FMul(m[2][2], v.z)), FMul(m[3][2], v.w))
        rw == FAdd(FAdd(FAdd(FMul(m[0][3], v.x), FMul(m[1][3], v.y)), FMul(m[2][3], v.z)), FMul(m[3][3], v.w))
    IN  QMvec4(rx, ry, rz, rw)

\* QM_transpose(QMmat3) with m[0][1] and m[1][0] left where they were
QM_transpose_mat3_kept_01(m) ==
    LET r00 == m[0][0]
        r01 == m[0][1]
        r02 == m[2][0]
        r10 == m[1][0]
        r11 == m[1][1]
        r12 == m[2][1]
        r20 == m[0][2]
        r21 == m[1][2]
        r22 == m[2][2]
    IN  QMmat3(<<r00, r01, r02,
              r10, r11, r12,
              r20, r21, r22>>)

QM_transpose_mat3(m) ==
    LET r00 == m[0][0]
        r01 == m[1][0]
        r02 == m[2][0]
        r10 == m[0][1]
        r11 == m[1][1]
        r12 == m[2][1]
        r20 == m[0][2]
        r21 == m[1][2]
        r22 == m[2][2]
    IN  QMmat3(<<r00, r01, r02,
              r10, r11, r12,
              r20, r21, r22>>)

QM_transpose_mat4_scalar(m) ==
    LET r00 == m[0][0]
        r01 == m[1][0]
        r02 == m[2][0]
        r03 == m[3][0]
        r10 == m[0][1]
        r11 == m[1][1]
        r12 == m[2][1]
        r13 == m[3][1]
        r20 == m[0][2]
        r21 == m[1][2]
        r22 == m[2][2]
        r23 == m[3][2]
        r30 == m[0][3]
        r31 == m[1][3]
        r32 == m[2][3]
        r33 == m[3][3]
    IN  QMmat4(<<r00, r01, r02, r03,
              r10, r11, r12, r13,
              r20, r21, r22, r23,
              r30, r31, r32, r33>>)

\* QM_inverse(QMmat3) with the cofactor result.m[2][1] missing its minus sign
QM_inverse_mat3_sign_slip(m) ==
    LET a == m[0][0]
        b == m[0][1]
        c == m[0][2]
        d == m[1][0]
        e == m[1][1]
        f == m[1][2]
        g == m[2][0]
        h == m[2][1]
        i == m[2][2]
        r00 == FSub(FMul(e, i), FMul(f, h))
        r01 == FNeg(FSub(FMul(b, i), FMul(h, c)))
        r02 == FSub(FMul(b, f), FMul(e, c))
        r10 == FNeg(FSub(FMul(d, i), FMul(g, f)))
        r11 == FSub(FMul(a, i), FMul(c, g))
        r12 == FNeg(FSub(FMul(a, f), FMul(d, c)))
        r20 == FSub(FMul(d, h), FMul(g, e))
        r21 == FSub(FMul(a, h), FMul(g, b))
        r22 == FSub(FMul(a, e), FMul(b, d))
        det == FDiv(F(1), FAdd(FAdd(FMul(a, r00), FMul(b, r10)), FMul(c, r20)))
        r00_v2 == FMul(r00, det)
        r01_v2 == FMul(r01, det)
        r02_v2 == FMul(r02, det)
        r10_v2 == FMul(r10, det)
        r11_v2 == FMul(r11, det)
        r12_v2 == FMul(r12, det)
        r20_v2 == FMul(r20, det)
        r21_v2 == FMul(r21, det)
        r22_v2 == FMul(r22, det)
    IN  QMmat3(<<r00_v2, r01_v2, r02_v2,
              r10_v2, r11_v2, r12_v2,
              r20_v2, r21_v2, r22_v2>>)

\* QM_inverse(QMmat3)
QM_inverse_mat3(m) ==
    LET a == m[0][0]
        b == m[0][1]
        c == m[0][2]
        d == m[1][0]
        e == m[1][1]
        f == m[1][2]
        g == m[2][0]
        h == m[2][1]
        i == m[2][2]
        r00 == FSub(FMul(e, i), FMul(f, h))
        r01 == FNeg(FSub(FMul(b, i), FMul(h, c)))
        r02 == FSub(FMul(b, f), FMul(e, c))
        r10 == FNeg(FSub(FMul(d, i), FMul(g, f)))
        r11 == FSub(FMul(a, i), FMul(c, g))
        r12 == FNeg(FSub(FMul(a, f), FMul(d, c)))
        r20 == FSub(FMul(d, h), FMul(g, e))
        r21 == FNeg(FSub(FMul(a, h), FMul(g, b)))
        r22 == FSub(FMul(a, e), FMul(b, d))
        det == FDiv(F(1), FAdd(FAdd(FMul(a, r00), FMul(b, r10)), FMul(c, r20)))
        r00_v2 == FMul(r00, det)
        r01_v2 == FMul(r01, det)
        r02_v2 == FMul(r02, det)
        r10_v2 == FMul(r10, det)
        r11_v2 == FMul(r11, det)
        r12_v2 == FMul(r12, det)
        r20_v2 == FMul(r20, det)
        r21_v2 == FMul(r21, det)
        r22_v2 == FMul(r22, det)
    IN  QMmat3(<<r00_v2, r01_v2, r02_v2,
              r10_v2, r11_v2, r12_v2,
              r20_v2, r21_v2, r22_v2>>)

QM_inverse_mat4_cofactors(mat_) ==
    LET a == mat_[0][0]
        b == mat_[0][1]
        c == mat_[0][2]
        d == mat_[0][3]
        e == mat_[1][0]
        f == mat_[1][1]
        g == mat_[1][2]
        h == mat_[1][3]
        i == mat_[2][0]
        j == mat_[2][1]
        k == mat_[2][2]
        l == mat_[2][3]
        m == mat_[3][0]
        n == mat_[3][1]
        o == mat_[3][2]
        p == mat_[3][3]
        tmp0 == FSub(FMul(k, p), FMul(o, l))
        tmp1 == FSub(FMul(j, p), FMul(n, l))
        tmp2 == FSub(FMul(j, o), FMul(n, k))
        tmp3 == FSub(FMul(i, p), FMul(m, l))
        tmp4 == FSub(FMul(i, o), FMul(m, k))
        tmp5 == FSub(FMul(i, n), FMul(m, j))
        r00 == FAdd(FSub(FMul(f, tmp0), FMul(g, tmp1)), FMul(h, tmp2))
        r10 == FNeg(FAdd(FSub(FMul(e, tmp0), FMul(g, tmp3)), FMul(h, tmp4)))
        r20 == FAdd(FSub(FMul(e, tmp1), FMul(f, tmp3)), FMul(h, tmp5))
        r30 == FNeg(FAdd(FSub(FMul(e, tmp2), FMul(f, tmp4)), FMul(g, tmp5)))
        r01 == FNeg(FAdd(FSub(FMul(b, tmp0), FMul(c, tmp1)), FMul(d, tmp2)))
        r11 == FAdd(FSub(FMul(a, tmp0), FMul(c, tmp3)), FMul(d, tmp4))
        r21 == FNeg(FAdd(FSub(FMul(a, tmp1), FMul(b, tmp3)), FMul(d, tmp5)))
        r31 == FAdd(FSub(FMul(a, tmp2), FMul(b, tmp4)), FMul(c, tmp5))
        tmp0_v2 == FSub(FMul(g, p), FMul(o, h))
        tmp1_v2 == FSub(FMul(f, p), FMul(n, h))
        tmp2_v2 == FSub(FMul(f, o), FMul(n, g))
        tmp3_v2 == FSub(FMul(e, p), FMul(m, h))
        tmp4_v2 == FSub(FMul(e, o), FMul(m, g))
        tmp5_v2 == FSub(FMul(e, n), FMul(m, f))
        r02 == FAdd(FSub(FMul(b, tmp0_v2), FMul(c, tmp1_v2)), FMul(d, tmp2_v2))
        r12 == FNeg(FAdd(FSub(FMul(a, tmp0_v2), FMul(c, tmp3_v2)), FMul(d, tmp4_v2)))
        r22 == FAdd(FSub(FMul(a, tmp1_v2), FMul(b, tmp3_v2)), FMul(d, tmp5_v2))
        r32 == FNeg(FAdd(FSub(FMul(a, tmp2_v2), FMul(b, tmp4_v2)), FMul(c, tmp5_v2)))
        tmp0_v3 == FSub(FMul(g, l), FMul(k, h))
        tmp1_v3 == FSub(FMul(f, l), FMul(j, h))
        tmp2_v3 == FSub(FMul(f, k), FMul(j, g))
        tmp3_v3 == FSub(FMul(e, l), FMul(i, h))
        tmp4_v3 == FSub(FMul(e, k), FMul(i, g))
        tmp5_v3 == FSub(FMul(e, j), FMul(i, f))
        r03 == FNeg(FAdd(FSub(FMul(b, tmp0_v3), FMul(c, tmp1_v3)), FMul(d, tmp2_v3)))
        r13 == FAdd(FSub(FMul(a, tmp0_v3), FMul(c, tmp3_v3)), FMul(d, tmp4_v3))
        r23 == FNeg(FAdd(FSub(FMul(a, tmp1_v3), FMul(b, tmp3_v3)), FMul(d, tmp5_v3)))
        r33 == FAdd(FSub(FMul(a, tmp2_v3), FMul(b, tmp4_v3)), FMul(c, tmp5_v3))
        det == FDiv(F(1), FAdd(FAdd(FAdd(FMul(a, r00), FMul(b, r10)), FMul(c, r20)), FMul(d, r30)))
    IN  [det |-> det,
         result |-> QMmat4(<<r00, r01, r02, r03,
              r10, r11, r12, r13,
              r20, r21, r22, r23,
              r30, r31, r32, r33>>)]

QM_inverse_mat4_scale_scalar(c) ==
    LET r00 == FMul(c.result[0][0], c.det)
        r01 == FMul(c.result[0][1], c.det)
        r02 == FMul(c.result[0][2], c.det)
        r03 == FMul(c.result[0][3], c.det)
        r10 == FMul(c.result[1][0], c.det)
        r11 == FMul(c.result[1][1], c.det)
        r12 == FMul(c.result[1][2], c.det)
        r13 == FMul(c.result[1][3], c.det)
        r20 == FMul(c.result[2][0], c.det)
        r21 == FMul(c.result[2][1], c.det)
        r22 == FMul(c.result[2][2], c.det)
        r23 == FMul(c.result[2][3], c.det)
        r30 == FMul(c.result[3][0], c.det)
        r31 == FMul(c.result[3][1], c.det)
        r32 == FMul(c.result[3][2], c.det)
        r33 == FMul(c.result[3][3], c.det)
    IN  QMmat4(<<r00, r01, r02, r03,
              r10, r11, r12, r13,
              r20, r21, r22, r23,
              r30, r31, r32, r33>>)

\* QM_rotate(QMvec3 axis, float angle) with the sine term of m[1][0] added, not subtracted
QM_rotate_axis_symmetric(axis, angle) ==
    LET normalized == QM_normalize_vec3(axis)
        radians == QM_deg_to_rad(angle)
        sine == QM_SINF(radians)
        cosine == QM_COSF(radians)
        cosine2 == FSub(F(1), cosine)
        r00 == FAdd(FMul(FMul(normalized.x, normalized.x), cosine2), cosine)
        r01 == FAdd(FMul(FMul(normalized.x, normalized.y), cosine2), FMul(normalized.z, sine))
        r02 == FSub(FMul(FMul(normalized.x, normalized.z), cosine2), FMul(normalized.y, sine))
        r10 == FAdd(FMul(FMul(normalized.y, normalized.x), cosine2), FMul(normalized.z, sine))
        r11 == FAdd(FMul(FMul(normalized.y, normalized.y), cosine2), cosine)
        r12 == FAdd(FMul(FMul(normalized.y, normalized.z), cosine2), FMul(normalized.x, sine))
        r20 == FAdd(FMul(FMul(normalized.z, normalized.x), cosine2), FMul(normalized.y, sine))
        r21 == FSub(FMul(FMul(normalized.z, normalized.y), cosine2), FMul(normalized.x, sine))
        r22 == FAdd(FMul(FMul(normalized.z, normalized.z), cosine2), cosine)
    IN  QMmat4(<<r00, r01, r02, F(0),
              r10, r11, r12, F(0),
              r20, r21, r22, F(0),
              F(0), F(0), F(0), F(1)>>)

\* QM_rotate(QMvec3 axis, float angle)
QM_rotate_axis(axis, angle) ==
    LET normalized == QM_normalize_vec3(axis)
        radians == QM_deg_to_rad(angle)
        sine == QM_SINF(radians)
        cosine == QM_COSF(radians)
        cosine2 == FSub(F(1), cosine)
        r00 == FAdd(FMul(FMul(normalized.x, normalized.x), cosine2), cosine)
        r01 == FAdd(FMul(FMul(normalized.x, normalized.y), cosine2), FMul(normalized.z, sine))
        r02 == FSub(FMul(FMul(normalized.x, normalized.z), cosine2), FMul(normalized.y, sine))
        r10 == FSub(FMul(FMul(normalized.y, normalized.x), cosine2), FMul(normalized.z, sine))
        r11 == FAdd(FMul(FMul(normalized.y, normalized.y), cosine2), cosine)
        r12 == FAdd(FMul(FMul(normalized.y, normalized.z), cosine2), FMul(normalized.x, sine))
        r20 == FAdd(FMul(FMul(normalized.z, normalized.x), cosine2), FMul(normalized.y, sine))
        r21 == FSub(FMul(FMul(normalized.z, normalized.y), cosine2), FMul(normalized.x, sine))
        r22 == FAdd(FMul(FMul(normalized.z, normalized.z), cosine2), cosine)
    IN  QMmat4(<<r00, r01, r02, F(0),
              r10, r11, r12, F(0),
              r20, r21, r22, F(0),
              F(0), F(0), F(0), F(1)>>)

\* QM_rotate(float angle)
QM_rotate_angle(angle) ==
    LET radians == QM_deg_to_rad(angle)
        sine == QM_SINF(radians)
        cosine == QM_COSF(radians)
        r00 == cosine
        r10 == sine
        r01 == FNeg(sine)
        r11 == cosine
    IN  QMmat3(<<r00, r01, F(0),
              r10, r11, F(0),
              F(0), F(0), F(1)>>)

\* QM_rotate(QMvec3 euler) with m[0][2] = sinY, the sign of the transposed convention
QM_rotate_euler_plus_sinY(euler) ==
    LET radians_x == QM_deg_to_rad(euler.x)
        radians_y == QM_deg_to_rad(euler.y)
        radians_z == QM_deg_to_rad(euler.z)
        sinX == QM_SINF(radians_x)
        cosX == QM_COSF(radians_x)
        sinY == QM_SINF(radians_y)
        cosY == QM_COSF(radians_y)
        sinZ == QM_SINF(radians_z)
        cosZ == QM_COSF(radians_z)
        r00 == FMul(cosY, cosZ)
        r01 == FMul(cosY, sinZ)
        r02 == sinY
        r10 == FSub(FMul(FMul(sinX, sinY), cosZ), FMul(cosX, sinZ))
        r11 == FAdd(FMul(FMul(sinX, sinY), sinZ), FMul(cosX, cosZ))
        r12 == FMul(sinX, cosY)
        r20 == FAdd(FMul(FMul(cosX, sinY), cosZ), FMul(sinX, sinZ))
        r21 == FSub(FMul(FMul(cosX, sinY), sinZ), FMul(sinX, cosZ))
        r22 == FMul(cosX, cosY)
    IN  QMmat4(<<r00, r01, r02, F(0),
              r10, r11, r12, F(0),
              r20, r21, r22, F(0),
              F(0), F(0), F(0), F(1)>>)

\* QM_rotate(QMvec3 euler)
QM_rotate_euler(euler) ==
    LET radians_x == QM_deg_to_rad(euler.x)
        radians_y == QM_deg_to_rad(euler.y)
        radians_z == QM_deg_to_rad(euler.z)
        sinX == QM_SINF(radians_x)
        cosX == QM_COSF(radians_x)
        sinY == QM_SINF(radians_y)
        cosY == QM_COSF(radians_y)
        sinZ == QM_SINF(radians_z)
        cosZ == QM_COSF(radians_z)
        r00 == FMul(cosY, cosZ)
        r01 == FMul(cosY, sinZ)
        r02 == FNeg(sinY)
        r10 == FSub(FMul(FMul(sinX, sinY), cosZ), FMul(cosX, sinZ))
        r11 == FAdd(FMul(FMul(sinX, sinY), sinZ), FMul(cosX, cosZ))
        r12 == FMul(sinX, cosY)
        r20 == FAdd(FMul(FMul(cosX, sinY), cosZ), FMul(sinX, sinZ))
        r21 == FSub(FMul(FMul(cosX, sinY), sinZ), FMul(sinX, cosZ))
        r22 == FMul(cosX, cosY)
    IN  QMmat4(<<r00, r01, r02, F(0),
              r10, r11, r12, F(0),
              r20, r21, r22, F(0),
              F(0), F(0), F(0), F(1)>>)

\* operator*(QMmat4, QMmat4) whose SSE branch passes m1's columns and m2
mul_mat4_mat4_swapped(m1, m2) ==
    IF QM_USE_SSE
    THEN QMmat4_packed(QM_mat4_mult_column_sse(column(m1, 0), m2),
                       QM_mat4_mult_column_sse(column(m1, 1), m2),
                       QM_mat4_mult_column_sse(column(m1, 2), m2),
                       QM_mat4_mult_column_sse(column(m1, 3), m2))
    ELSE mul_mat4_mat4_scalar(m1, m2)

\* operator*(QMmat4, QMmat4)
mul_mat4_mat4(m1, m2) ==
    IF QM_USE_SSE
    THEN QMmat4_packed(QM_mat4_mult_column_sse(column(m2, 0), m1),
                       QM_mat4_mult_column_sse(column(m2, 1), m1),
                       QM_mat4_mult_column_sse(column(m2, 2), m1),
                       QM_mat4_mult_column_sse(column(m2, 3), m1))
    ELSE mul_mat4_mat4_scalar(m1, m2)

\* operator*(QMmat4, QMvec4)
mul_mat4_vec4(m, v) ==
    IF QM_USE_SSE
    THEN unpacked(QM_mat4_mult_column_sse(packed(v), m))
    ELSE mul_mat4_vec4_scalar(m, v)

\* QMmat4 result = m; then the four columns are transposed in place
QM_transpose_mat4(m) ==
    IF QM_USE_SSE
    THEN LET t == _MM_TRANSPOSE4_PS(column(m, 0), column(m, 1), column(m, 2), column(m, 3))
         IN  QMmat4_packed(t[1], t[2], t[3], t[4])
    ELSE QM_transpose_mat4_scalar(m)

QM_inverse_mat4_scale_sse(c) ==
    LET scale == _mm_set1_ps(c.det)
    IN  QMmat4_packed(_mm_mul_ps(column(c.result, 0), scale),
                      _mm_mul_ps(column(c.result, 1), scale),
                      _mm_mul_ps(column(c.result, 2), scale),
                      _mm_mul_ps(column(c.result, 3), scale))

\* QM_inverse(QMmat4) that returns the cofactors and leaves out the scaling by det
QM_inverse_mat4_unscaled(mat_) ==
    QM_inverse_mat4_cofactors(mat_).result

\* QM_inverse(QMmat4)
QM_inverse_mat4(mat_) ==
    LET c == QM_inverse_mat4_cofactors(mat_)
    IN  IF QM_USE_SSE THEN QM_inverse_mat4_scale_sse(c) ELSE QM_inverse_mat4_scale_scalar(c)

\* QM_perspective starting from the identity, not from the zero matrix: m[3][3] is 1
QM_perspective_from_identity(fov, aspect, near, far) ==
    LET scale == FMul(QM_TANF(QM_deg_to_rad(FMul(fov, Half))), near)
        right == FMul(aspect, scale)
        left == FNeg(right)
        top == scale
        bot == FNeg(top)
        r00 == FDiv(near, right)
        r11 == FDiv(near, top)
        r22 == FDiv(FNeg(FAdd(far, near)), FSub(far, near))
        r32 == FDiv(FMul(FMul(F(-2), far), near), FSub(far, near))
        r23 == F(-1)
    IN  QMmat4(<<r00,  F(0), F(0), F(0),
                 F(0), r11,  F(0), F(0),
                 F(0), F(0), r22,  r23,
                 F(0), F(0), r32,  F(1)>>)

\* QM_perspective; QMmat4 result = {0}
QM_perspective(fov, aspect, near, far) ==
    LET scale == FMul(QM_TANF(QM_deg_to_rad(FMul(fov, Half))), near)
        right == FMul(aspect, scale)
        left == FNeg(right)
        top == scale
        bot == FNeg(top)
        r00 == FDiv(near, right)
        r11 == FDiv(near, top)
        r22 == FDiv(FNeg(FAdd(far, near)), FSub(far, near))
        r32 == FDiv(FMul(FMul(F(-2), far), near), FSub(far, near))
        r23 == F(-1)
    IN  QMmat4(<<r00,  F(0), F(0), F(0),
                 F(0), r11,  F(0), F(0),
                 F(0), F(0), r22,  r23,
                 F(0), F(0), r32,  F(0)>>)

\* QM_translate(QMvec2 t)
QM_translate_vec2(t) ==
    QMmat3(<<F(1), F(0), F(0),
             F(0), F(1), F(0),
             t.x,  t.y,  F(1)>>)

\* QM_translate(QMvec3 t) writing t to m[0..2][3], the last row
QM_translate_vec3_last_row(t) ==
    QMmat4(<<F(1), F(0), F(0), t.x,
             F(0), F(1), F(0), t.y,
             F(0), F(0), F(1), t.z,
             F(0), F(0), F(0), F(1)>>)

\* QM_translate(QMvec3 t)
QM_translate_vec3(t) ==
    QMmat4(<<F(1), F(0), F(0), F(0),
             F(0), F(1), F(0), F(0),
             F(0), F(0), F(1), F(0),
             t.x,  t.y,  t.z,  F(1)>>)


\* QM_top_left
QM_top_left(m) ==
    QMmat3(<<m[0][0], m[0][1], m[0][2],
             m[1][0], m[1][1], m[1][2],
             m[2][0], m[2][1], m[2][2]>>)

\* QM_look writing r, u and dir to the columns of RUD
QM_look_columns(pos, dir, up) ==
    LET r == QM_normalize_vec3(QM_cross(up, dir))
        u == QM_cross(dir, r)
        RUD == QMmat4(<<r.x,   r.y,   r.z,   F(0),
                       u.x,   u.y,   u.z,   F(0),
                       dir.x, dir.y, dir.z, F(0),
                       F(0),  F(0),  F(0),  F(1)>>)
        oppPos == QMvec3(FNeg(pos.x), FNeg(pos.y), FNeg(pos.z))
    IN  mul_mat4_mat4(RUD, QM_translate_vec3(oppPos))

\* QM_look
QM_look(pos, dir, up) ==
    LET r == QM_normalize_vec3(QM_cross(up, dir))
        u == QM_cross(dir, r)
        RUD == QMmat4(<<r.x,  u.x,  dir.x, F(0),
                       r.y,  u.y,  dir.y, F(0),
                       r.z,  u.z,  dir.z, F(0),
                       F(0), F(0), F(0),  F(1)>>)
        oppPos == QMvec3(FNeg(pos.x), FNeg(pos.y), FNeg(pos.z))
    IN  mul_mat4_mat4(RUD, QM_translate_vec3(oppPos))

\* QM_lookat
QM_lookat(pos, target, up) ==
    LET dir == QM_normalize_vec3(sub_vec3_vec3(pos, target))
    IN  QM_look(pos, dir, up)


----------------------------------------------------------------------------
(* Quaternion functions.                                                    *)

QM_quaternion_identity == QMquaternion(F(0), F(0), F(0), F(1))

QM_quaternion_to_mat4(q) ==
    LET x2 == FAdd(q.x, q.x)
        y2 == FAdd(q.y, q.y)
        z2 == FAdd(q.z, q.z)
        xx2 == FMul(q.x, x2)
        xy2 == FMul(q.x, y2)
        xz2 == FMul(q.x, z2)
        yy2 == FMul(q.y, y2)
        yz2 == FMul(q.y, z2)
        zz2 == FMul(q.z, z2)
        sx2 == FMul(q.w, x2)
        sy2 == FMul(q.w, y2)
        sz2 == FMul(q.w, z2)
        r00 == FSub(F(1), FAdd(yy2, zz2))
        r01 == FSub(xy2, sz2)
        r02 == FAdd(xz2, sy2)
        r10 == FAdd(xy2, sz2)
        r11 == FSub(F(1), FAdd(xx2, zz2))
        r12 == FSub(yz2, sx2)
        r20 == FSub(xz2, sy2)
        r21 == FAdd(yz2, sx2)
        r22 == FSub(F(1), FAdd(xx2, yy2))
    IN  QMmat4(<<r00, r01, r02, F(0),
              r10, r11, r12, F(0),
              r20, r21, r22, F(0),
              F(0), F(0), F(0), F(1)>>)

mul_quat_quat_scalar(q1, q2) ==
    LET rx == FSub(FAdd(FAdd(FMul(q1.w, q2.x), FMul(q1.x, q2.w)), FMul(q1.y, q2.z)), FMul(q1.z, q2.y))
        ry == FAdd(FAdd(FSub(FMul(q1.w, q2.y), FMul(q1.x, q2.z)), FMul(q1.y, q2.w)), FMul(q1.z, q2.x))
        rz == FAdd(FSub(FAdd(FMul(q1.w, q2.z), FMul(q1.x, q2.y)), FMul(q1.y, q2.x)), FMul(q1.z, q2.w))
        rw == FSub(FSub(FSub(FMul(q1.w, q2.w), FMul(q1.x, q2.x)), FMul(q1.y, q2.y)), FMul(q1.z, q2.z))
    IN  QMquaternion(rx, ry, rz, rw)

QM_quaternion_from_axis_angle(axis, angle) ==
    LET radians == QM_deg_to_rad(FMul(angle, Frac(1, 2)))
        normalized == QM_normalize_vec3(axis)
        sine == QM_SINF(radians)
        rx == FMul(normalized.x, sine)
        ry == FMul(normalized.y, sine)
        rz == FMul(normalized.z, sine)
        rw == QM_COSF(radians)
    IN  QMquaternion(rx, ry, rz, rw)

\* operator*(QMquaternion, QMquaternion) whose y step reuses the sign mask of the x step
mul_quat_quat_mask_reused(q1, q2) ==
    IF QM_USE_SSE
    THEN LET q1p == packed(q1)
             q2p == packed(q2)
             temp1 == _mm_shuffle_ps(q1p, q1p, _MM_SHUFFLE(3, 3, 3, 3))
             temp2 == q2p
             result == _mm_mul_ps(temp1, temp2)
             temp1_v2 == _mm_xor_ps(_mm_shuffle_ps(q1p, q1p, _MM_SHUFFLE(0, 0, 0, 0)),
                                    _mm_setr_ps(F(0), NegZero, F(0), NegZero))
             temp2_v2 == _mm_shuffle_ps(q2p, q2p, _MM_SHUFFLE(0, 1, 2, 3))
             result_v2 == _mm_add_ps(result, _mm_mul_ps(temp1_v2, temp2_v2))
             temp1_v3 == _mm_xor_ps(_mm_shuffle_ps(q1p, q1p, _MM_SHUFFLE(1, 1, 1, 1)),
                                    _mm_setr_ps(F(0), NegZero, F(0), NegZero))
             temp2_v3 == _mm_shuffle_ps(q2p, q2p, _MM_SHUFFLE(1, 0, 3, 2))
             result_v3 == _mm_add_ps(result_v2, _mm_mul_ps(temp1_v3, temp2_v3))
             temp1_v4 == _mm_xor_ps(_mm_shuffle_ps(q1p, q1p, _MM_SHUFFLE(2, 2, 2, 2)),
                                    _mm_setr_ps(NegZero, F(0), F(0), NegZero))
             temp2_v4 == _mm_shuffle_ps(q2p, q2p, _MM_SHUFFLE(2, 3, 0, 1))
             result_v4 == _mm_add_ps(result_v3, _mm_mul_ps(temp1_v4, temp2_v4))
         IN  unpacked(result_v4)
    ELSE mul_quat_quat_scalar(q1, q2)

\* operator*(QMquaternion, QMquaternion)
mul_quat_quat(q1, q2) ==
    IF QM_USE_SSE
    THEN LET q1p == packed(q1)
             q2p == packed(q2)
             temp1 == _mm_shuffle_ps(q1p, q1p, _MM_SHUFFLE(3, 3, 3, 3))
             temp2 == q2p
             result == _mm_mul_ps(temp1, temp2)
             temp1_v2 == _mm_xor_ps(_mm_shuffle_ps(q1p, q1p, _MM_SHUFFLE(0, 0, 0, 0)),
                                    _mm_setr_ps(F(0), NegZero, F(0), NegZero))
             temp2_v2 == _mm_shuffle_ps(q2p, q2p, _MM_SHUFFLE(0, 1, 2, 3))
             result_v2 == _mm_add_ps(result, _mm_mul_ps(temp1_v2, temp2_v2))
             temp1_v3 == _mm_xor_ps(_mm_shuffle_ps(q1p, q1p, _MM_SHUFFLE(1, 1, 1, 1)),
                                    _mm_setr_ps(F(0), F(0), NegZero, NegZero))
             temp2_v3 == _mm_shuffle_ps(q2p, q2p, _MM_SHUFFLE(1, 0, 3, 2))
             result_v3 == _mm_add_ps(result_v2, _mm_mul_ps(temp1_v3, temp2_v3))
             temp1_v4 == _mm_xor_ps(_mm_shuffle_ps(q1p, q1p, _MM_SHUFFLE(2, 2, 2, 2)),
                                    _mm_setr_ps(NegZero, F(0), F(0), NegZero))
             temp2_v4 == _mm_shuffle_ps(q2p, q2p, _MM_SHUFFLE(2, 3, 0, 1))
             result_v4 == _mm_add_ps(result_v3, _mm_mul_ps(temp1_v4, temp2_v4))
         IN  unpacked(result_v4)
    ELSE mul_quat_quat_scalar(q1, q2)

\* QM_dot(QMquaternion, QMquaternion)
QM_dot_quat(q1, q2) ==
    IF QM_USE_SSE
    THEN LET r  == _mm_mul_ps(packed(q1), packed(q2))
             r2 == _mm_hadd_ps(r, r)
             r3 == _mm_hadd_ps(r2, r2)
         IN  _mm_store_ss(r3)
    ELSE FAdd(FAdd(FAdd(FMul(q1.x, q2.x), FMul(q1.y, q2.y)), FMul(q1.z, q2.z)), FMul(q1.w, q2.w))

\* operator/(QMquaternion, float)
div_quat_float(q, s) ==
    IF QM_USE_SSE
    THEN LET scale == _mm_set1_ps(s) IN unpacked(_mm_div_ps(packed(q), scale))
    ELSE QMquaternion(FDiv(q.x, s), FDiv(q.y, s), FDiv(q.z, s), FDiv(q.w, s))

\* operator+(QMquaternion, QMquaternion)
add_quat_quat(q1, q2) ==
    IF QM_USE_SSE
    THEN unpacked(_mm_add_ps(packed(q1), packed(q2)))
    ELSE QMquaternion(FAdd(q1.x, q2.x), FAdd(q1.y, q2.y), FAdd(q1.z, q2.z), FAdd(q1.w, q2.w))

\* operator*(QMquaternion, float)
mul_quat_float(q, s) ==
    IF QM_USE_SSE
    THEN LET scale == _mm_set1_ps(s) IN unpacked(_mm_mul_ps(packed(q), scale))
    ELSE QMquaternion(FMul(q.x, s), FMul(q.y, s), FMul(q.z, s), FMul(q.w, s))

QM_conjugate(q) == QMquaternion(FNeg(q.x), FNeg(q.y), FNeg(q.z), q.w)

\* QM_inverse(QMquaternion) as built with QM_USE_SSE 1: the quotient _mm_div_ps
\* returns is not assigned to anything.  (The #else branch calls
\* QM_quaternion_dot, which is declared nowhere: a build with QM_USE_SSE 0 does
\* not compile this function.)
QM_inverse_quat(q) ==
    LET rx == FNeg(q.x)
        ry == FNeg(q.y)
        rz == FNeg(q.z)
        rw == q.w
        result == QMquaternion(rx, ry, rz, rw)
        scale == _mm_set1_ps(QM_dot_quat(q, q))
        discarded == _mm_div_ps(packed(result), scale)
    IN  result

\* QM_quaternion_from_euler whose SSE branch combines with _mm_add_ps
QM_quaternion_from_euler_added(angles) ==
    LET radians_x == QM_deg_to_rad(FMul(angles.x, Half))
        radians_y == QM_deg_to_rad(FMul(angles.y, Half))
        radians_z == QM_deg_to_rad(FMul(angles.z, Half))
        sinx == QM_SINF(radians_x)
        cosx == QM_COSF(radians_x)
        siny == QM_SINF(radians_y)
        cosy == QM_COSF(radians_y)
        sinz == QM_SINF(radians_z)
        cosz == QM_COSF(radians_z)
    IN  IF QM_USE_SSE
        THEN LET packedx == _mm_setr_ps(sinx, cosx, cosx, cosx)
                 packedy == _mm_setr_ps(cosy, siny, cosy, cosy)
                 packedz == _mm_setr_ps(cosz, cosz, sinz, cosz)
                 result == _mm_mul_ps(_mm_mul_ps(packedx, packedy), packedz)
                 packedx_v2 == _mm_shuffle_ps(packedx, packedx, _MM_SHUFFLE(0, 0, 0, 1))
                 packedy_v2 == _mm_shuffle_ps(packedy, packedy, _MM_SHUFFLE(1, 1, 0, 1))
                 packedz_v2 == _mm_shuffle_ps(packedz, packedz, _MM_SHUFFLE(2, 0, 2, 2))
                 result_v2 == _mm_add_ps(result, _mm_mul_ps(_mm_mul_ps(packedx_v2, packedy_v2),
                                                               packedz_v2))
             IN  unpacked(result_v2)
        ELSE QMquaternion(
                 FSub(FMul(FMul(sinx, cosy), cosz), FMul(FMul(cosx, siny), sinz)),
                 FAdd(FMul(FMul(cosx, siny), cosz), FMul(FMul(sinx, cosy), sinz)),
                 FSub(FMul(FMul(cosx, cosy), sinz), FMul(FMul(sinx, siny), cosz)),
                 FAdd(FMul(FMul(cosx, cosy), cosz), FMul(FMul(sinx, siny), sinz)))

\* QM_quaternion_from_euler
QM_quaternion_from_euler(angles) ==
    LET radians_x == QM_deg_to_rad(FMul(angles.x, Half))
        radians_y == QM_deg_to_rad(FMul(angles.y, Half))
        radians_z == QM_deg_to_rad(FMul(angles.z, Half))
        sinx == QM_SINF(radians_x)
        cosx == QM_COSF(radians_x)
        siny == QM_SINF(radians_y)
        cosy == QM_COSF(radians_y)
        sinz == QM_SINF(radians_z)
        cosz == QM_COSF(radians_z)
    IN  IF QM_USE_SSE
        THEN LET packedx == _mm_setr_ps(sinx, cosx, cosx, cosx)
                 packedy == _mm_setr_ps(cosy, siny, cosy, cosy)
                 packedz == _mm_setr_ps(cosz, cosz, sinz, cosz)
                 result == _mm_mul_ps(_mm_mul_ps(packedx, packedy), packedz)
                 packedx_v2 == _mm_shuffle_ps(packedx, packedx, _MM_SHUFFLE(0, 0, 0, 1))
                 packedy_v2 == _mm_shuffle_ps(packedy, packedy, _MM_SHUFFLE(1, 1, 0, 1))
                 packedz_v2 == _mm_shuffle_ps(packedz, packedz, _MM_SHUFFLE(2, 0, 2, 2))
                 result_v2 == _mm_addsub_ps(result, _mm_mul_ps(_mm_mul_ps(packedx_v2, packedy_v2),
                                                               packedz_v2))
             IN  unpacked(result_v2)
        ELSE QMquaternion(
                 FSub(FMul(FMul(sinx, cosy), cosz), FMul(FMul(cosx, siny), sinz)),
                 FAdd(FMul(FMul(cosx, siny), cosz), FMul(FMul(sinx, cosy), sinz)),
                 FSub(FMul(FMul(cosx, cosy), sinz), FMul(FMul(sinx, siny), cosz)),
                 FAdd(FMul(FMul(cosx, cosy), cosz), FMul(FMul(sinx, siny), sinz)))

\* QM_length(QMquaternion)
QM_length_quat(q) == QM_SQRTF(QM_dot_quat(q, q))

\* QM_normalize(QMquaternion) without the test of len, as QM_normalize(QMvec4) is
QM_normalize_quat_unguarded(q) ==
    LET len == QM_length_quat(q)
    IN  div_quat_float(q, len)

\* QM_normalize(QMquaternion); QMquaternion result starts as q[4] = {}
QM_normalize_quat(q) ==
    LET len == QM_length_quat(q)
    IN  IF FNe(len, F(0)) THEN div_quat_float(q, len) ELSE QMquaternion(F(0), F(0), F(0), F(0))

QM_slerp(q1, q2, a) ==
    LET cosine == QM_dot_quat(q1, q2)
        angle == QM_ACOSF(cosine)
        sine1 == QM_SINF(FMul(FSub(F(1), a), angle))
        sine2 == QM_SINF(FMul(a, angle))
        invSine == FDiv(F(1), QM_SINF(angle))
        q1scaled == mul_quat_float(q1, sine1)
        q2scaled == mul_quat_float(q2, sine2)
        result == add_quat_quat(q1scaled, q2scaled)
        result_v2 == mul_quat_float(result, invSine)
    IN  result_v2


----------------------------------------------------------------------------
(* The callers.  A caller holds its arguments, applies one function of the  *)
(* library to them and keeps what it returns.                               *)

MaxQ == 2       \* quaternion components are the integers -MaxQ..MaxQ
MaxV == 1       \* components of a pair of vectors are the integers -MaxV..MaxV
MaxN == 2       \* components of a vector to normalize are the integers -MaxN..MaxN
MaxT == 3       \* components of a translation are the integers -MaxT..MaxT
MaxP == 1       \* components of a translated point are the integers 0..MaxP
MaxAxis == 2    \* rotation-axis components are the integers -MaxAxis..MaxAxis
MaxAngle == 4   \* angles are k * 45 degrees, k in -MaxAngle..MaxAngle
MaxRotV == 1    \* the rotated vector's components are the integers 0..MaxRotV
MaxEntry3 == 1  \* entries of a 3x3 matrix are the integers -MaxEntry3..MaxEntry3
MaxEntry4 == 1  \* entries of a 4x4 matrix are the integers 0..MaxEntry4
MaxA == 4       \* interpolation parameters are k / MaxA, k in 0..MaxA
MaxH1 == 1      \* components of the left factor of a quaternion product are -MaxH1..MaxH1
MaxH2 == 1      \* components of the right factor are 0..MaxH2
MaxEuler == 4   \* Euler angles are k * 45 degrees, k in -MaxEuler..MaxEuler
MaxQuarter == 4 \* Euler angles of a quaternion are k * 90 degrees, k in -MaxQuarter..MaxQuarter
MaxLook == 1 \* components of pos, dir, target and up in -MaxLook..MaxLook
MaxMulV == 1    \* a multiplied QMvec3 has components in -MaxMulV..MaxMulV, a QMvec4 in 0..MaxMulV
MaxTurn == 16   \* compared rotation angles are k * 45 degrees, k in -MaxTurn..MaxTurn
MaxUnit == 1    \* a factor with one non-zero entry has it in -MaxUnit..MaxUnit
MaxRamp == 1    \* a dense factor has the entries k + (its index in memory), k in -MaxRamp..MaxRamp
MaxC == 1       \* components of constructor arguments are the integers -MaxC..MaxC
MaxFov == 3     \* fields of view are k * 45 degrees, k in 1..MaxFov
MaxAspect == 4  \* aspect ratios are k / 2, k in 1..MaxAspect
MaxNear == 3    \* near planes are k / 10, k in 1..MaxNear
MaxFar == 4     \* far planes are 1..MaxFar, and 100

None == <<>>

Floats(lo, hi) == {F(k) : k \in lo..hi}

Vec2s(lo, hi) == {QMvec2(x, y) : x \in Floats(lo, hi), y \in Floats(lo, hi)}

Vec3s(lo, hi) ==
    {QMvec3(x, y, z) : x \in Floats(lo, hi), y \in Floats(lo, hi), z \in Floats(lo, hi)}

Vec4s(lo, hi) ==
    {QMvec4(x, y, z, w) :
        x \in Floats(lo, hi), y \in Floats(lo, hi), z \in Floats(lo, hi), w \in Floats(lo, hi)}

Quats(lo, hi) ==
    {QMquaternion(x, y, z, w) :
        x \in Floats(lo, hi), y \in Floats(lo, hi), z \in Floats(lo, hi), w \in Floats(lo, hi)}

\* how every call ends: the function is named and its result kept
Return(name, result) ==
    /\ op' = name
    /\ res' = result
    /\ UNCHANGED <<QM_USE_SSE, arg>>

----------------------------------------------------------------------------
(* Quaternion callers: one quaternion q.                                    *)

InitQuat ==
    /\ QM_USE_SSE \in BOOLEAN
    /\ op = "init"
    /\ arg \in [q : Quats(-MaxQ, MaxQ)]
    /\ res = None

CallConjugate ==
    /\ op = "init"
    /\ Return("QM_conjugate", QM_conjugate(arg.q))

\* QM_inverse(QMquaternion) exists only in a build with QM_USE_SSE 1
CallInverseQuat ==
    /\ op = "init"
    /\ QM_USE_SSE
    /\ Return("QM_inverse_quat", QM_inverse_quat(arg.q))

NextQuat == CallConjugate \/ CallInverseQuat

SpecQuat == InitQuat /\ [][NextQuat]_vars

\* C1: for every quaternion q with dot(q,q) != 0, QM_inverse(q) is conjugate(q)
\* with each component divided by dot(q,q), so q * QM_inverse(q) is the identity
\* quaternion (0,0,0,1), also for a non-unit q such as (0,0,0,2).
C1_InverseIsScaledConjugate ==
    (op = "QM_inverse_quat" /\ FNe(QM_dot_quat(arg.q, arg.q), F(0))) =>
        /\ res = div_quat_float(QM_conjugate(arg.q), QM_dot_quat(arg.q, arg.q))
        /\ mul_quat_quat(arg.q, res) = QM_quaternion_identity


----------------------------------------------------------------------------
(* Callers with two 3-d vectors v1, v2 and a scalar w; the 2-d vectors are  *)
(* their x, y and the 4-d vectors are QMvec4(v1, w) and QMvec4(w, v2).      *)

InitVec ==
    /\ QM_USE_SSE \in BOOLEAN
    /\ op = "init"
    /\ arg \in [v1 : Vec3s(-MaxV, MaxV), v2 : Vec3s(-MaxV, MaxV), w : Floats(-MaxV, MaxV)]
    /\ res = None

xy(v) == QMvec2(v.x, v.y)

CallDot2 ==
    /\ op = "init"
    /\ Return("QM_dot_vec2", QM_dot_vec2(xy(arg.v1), xy(arg.v2)))

CallDot3 ==
    /\ op = "init"
    /\ Return("QM_dot_vec3", QM_dot_vec3(arg.v1, arg.v2))

CallDot4 ==
    /\ op = "init"
    /\ Return("QM_dot_vec4", QM_dot_vec4(QMvec4_xyz_w(arg.v1, arg.w), QMvec4_x_yzw(arg.w, arg.v2)))

CallCross ==
    /\ op = "init"
    /\ Return("QM_cross", QM_cross(arg.v1, arg.v2))

NextVec == CallDot2 \/ CallDot3 \/ CallDot4 \/ CallCross

SpecVec == InitVec /\ [][NextVec]_vars

\* the integer a float of the input sets stands for
IntOf(x) == x[1]

\* C10: QM_cross(v1, v2) is (y1*z2 - z1*y2, z1*x2 - x1*z2, x1*y2 - y1*x2) and
\* QM_dot is the sum of the componentwise products; dot((1,0,0),(0,1,0)) is 0
\* and cross((1,0,0),(0,1,0)) is (0,0,1).
C10_CrossAndDot ==
    LET x1 == IntOf(arg.v1.x)
        y1 == IntOf(arg.v1.y)
        z1 == IntOf(arg.v1.z)
        x2 == IntOf(arg.v2.x)
        y2 == IntOf(arg.v2.y)
        z2 == IntOf(arg.v2.z)
        w  == IntOf(arg.w)
        e1 == QMvec3(F(1), F(0), F(0))
        e2 == QMvec3(F(0), F(1), F(0))
    IN  /\ op = "QM_cross" =>
              res = QMvec3(F(y1 * z2 - z1 * y2), F(z1 * x2 - x1 * z2), F(x1 * y2 - y1 * x2))
        /\ op = "QM_dot_vec2" => res = F(x1 * x2 + y1 * y2)
        /\ op = "QM_dot_vec3" => res = F(x1 * x2 + y1 * y2 + z1 * z2)
        /\ op = "QM_dot_vec4" => res = F(x1 * w + y1 * x2 + z1 * y2 + w * z2)
        /\ (op = "QM_cross" /\ arg.v1 = e1 /\ arg.v2 = e2) => res = QMvec3(F(0), F(0), F(1))
        /\ (op = "QM_dot_vec3" /\ arg.v1 = e1 /\ arg.v2 = e2) => res = F(0)

C10_Witness ==
    /\ op = "QM_cross"
    /\ arg.v1 = QMvec3(F(1), F(0), F(0))
    /\ arg.v2 = QMvec3(F(0), F(1), F(0))
    /\ res = QMvec3(F(0), F(0), F(1))

\* C11: for all 3-d vectors v1, v2, QM_cross(v1, v2) is the componentwise
\* negation of QM_cross(v2, v1), and QM_dot(v1, QM_cross(v1, v2)) and
\* QM_dot(v2, QM_cross(v1, v2)) are 0.
C11_CrossAnticommutesAndIsOrthogonal ==
    LET back == QM_cross(arg.v2, arg.v1)
    IN  op = "QM_cross" =>
            /\ res = QMvec3(FNeg(back.x), FNeg(back.y), FNeg(back.z))
            /\ QM_dot_vec3(arg.v1, res) = F(0)
            /\ QM_dot_vec3(arg.v2, res) = F(0)

\* two vectors with no zero component whose cross product has none either
C11_Witness ==
    /\ op = "QM_cross"
    /\ arg.v1 = QMvec3(F(1), F(1), F(-1))
    /\ arg.v2 = QMvec3(F(1), F(-1), F(1))
    /\ res = QMvec3(F(0), F(-2), F(-2))
    /\ QM_cross(arg.v2, arg.v1) = QMvec3(F(0), F(2), F(2))

----------------------------------------------------------------------------
(* Callers that normalize: one 4-d vector v, whose x, y and x, y, z are the *)
(* 2-d and 3-d vectors.  sqrtf is exact on the lengths these callers use.   *)

InitNormalize ==
    /\ QM_USE_SSE \in BOOLEAN
    /\ op = "init"
    /\ arg \in [v : Vec4s(-MaxN, MaxN)]
    /\ res = None

xyz(v) == QMvec3(v.x, v.y, v.z)

CallNormalize2 ==
    /\ op = "init"
    /\ ExactSqrt(QM_dot_vec2(xy(arg.v), xy(arg.v)))
    /\ Return("QM_normalize_vec2", QM_normalize_vec2(xy(arg.v)))

CallNormalize3 ==
    /\ op = "init"
    /\ ExactSqrt(QM_dot_vec3(xyz(arg.v), xyz(arg.v)))
    /\ Return("QM_normalize_vec3", QM_normalize_vec3(xyz(arg.v)))

CallNormalize4 ==
    /\ op = "init"
    /\ ExactSqrt(QM_dot_vec4(arg.v, arg.v))
    /\ Return("QM_normalize_vec4", QM_normalize_vec4(arg.v))

NextNormalize == CallNormalize2 \/ CallNormalize3 \/ CallNormalize4

SpecNormalize == InitNormalize /\ [][NextNormalize]_vars

\* c is n divided by the positive float len whose square is len2
IsQuotient(c, n, len, len2) == Sign(len) > 0 /\ FMul(len, len) = len2 /\ FMul(c, len) = n

\* C9: QM_normalize of a zero-length Vector2 or Vector3 returns the zero vector;
\* QM_normalize of a zero-length Vector4 divides every component by the zero
\* length (0/0, not a number); for a non-zero vector of any dimension the result
\* is v divided by QM_length(v).
C9_NormalizeZeroGuard ==
    LET v  == arg.v
        n2 == F(IntOf(v.x) * IntOf(v.x) + IntOf(v.y) * IntOf(v.y))
        n3 == F(IntOf(v.x) * IntOf(v.x) + IntOf(v.y) * IntOf(v.y) + IntOf(v.z) * IntOf(v.z))
        n4 == F(IntOf(v.x) * IntOf(v.x) + IntOf(v.y) * IntOf(v.y) + IntOf(v.z) * IntOf(v.z)
                  + IntOf(v.w) * IntOf(v.w))
    IN  /\ op = "QM_normalize_vec2" =>
              IF n2 = F(0)
              THEN res = QMvec2(F(0), F(0))
              ELSE /\ IsQuotient(res.x, v.x, QM_length_vec2(xy(v)), n2)
                   /\ IsQuotient(res.y, v.y, QM_length_vec2(xy(v)), n2)
        /\ op = "QM_normalize_vec3" =>
              IF n3 = F(0)
              THEN res = QMvec3(F(0), F(0), F(0))
              ELSE /\ IsQuotient(res.x, v.x, QM_length_vec3(xyz(v)), n3)
                   /\ IsQuotient(res.y, v.y, QM_length_vec3(xyz(v)), n3)
                   /\ IsQuotient(res.z, v.z, QM_length_vec3(xyz(v)), n3)
        /\ op = "QM_normalize_vec4" =>
              IF n4 = F(0)
              THEN IsNaN(res.x) /\ IsNaN(res.y) /\ IsNaN(res.z) /\ IsNaN(res.w)
              ELSE /\ IsQuotient(res.x, v.x, QM_length_vec4(v), n4)
                   /\ IsQuotient(res.y, v.y, QM_length_vec4(v), n4)
                   /\ IsQuotient(res.z, v.z, QM_length_vec4(v), n4)
                   /\ IsQuotient(res.w, v.w, QM_length_vec4(v), n4)

C9_Witness ==
    /\ op = "QM_normalize_vec4"
    /\ arg.v = QMvec4(F(0), F(0), F(0), F(0))
    /\ IsNaN(res.x)

----------------------------------------------------------------------------
(* Callers that translate: a translation t, a point p and its w.            *)

InitTranslate ==
    /\ QM_USE_SSE \in BOOLEAN
    /\ op = "init"
    /\ arg \in [t : Vec3s(-MaxT, MaxT), p : Vec3s(0, MaxP), w : {F(0), F(1)}]
    /\ res = None

CallTranslate2 ==
    /\ op = "init"
    /\ Return("QM_translate_vec2", QM_translate_vec2(xy(arg.t)))

CallTranslate3 ==
    /\ op = "init"
    /\ Return("QM_translate_vec3", QM_translate_vec3(arg.t))

NextTranslate == CallTranslate2 \/ CallTranslate3

SpecTranslate == InitTranslate /\ [][NextTranslate]_vars

\* C6: QM_translate(t) is the identity matrix with only the translation column
\* overwritten (4x4: m[3][0..2] = t; 3x3: m[2][0..1] = t.x, t.y), so
\* QM_translate(t) * (p, 1) = (p + t, 1) and a vector with w = 0 is left
\* unchanged.
C6_TranslateColumn ==
    LET t == arg.t
        p == arg.p
    IN  /\ op = "QM_translate_vec3" =>
              /\ \A i \in 0..3 : \A j \in 0..3 :
                    res[i][j] = IF i = 3 /\ j = 0 THEN t.x
                                ELSE IF i = 3 /\ j = 1 THEN t.y
                                ELSE IF i = 3 /\ j = 2 THEN t.z
                                ELSE IF i = j THEN F(1) ELSE F(0)
              /\ arg.w = F(1) =>
                    mul_mat4_vec4(res, QMvec4_xyz_w(p, F(1)))
                        = QMvec4(F(IntOf(p.x) + IntOf(t.x)), F(IntOf(p.y) + IntOf(t.y)),
                                 F(IntOf(p.z) + IntOf(t.z)), F(1))
              /\ arg.w = F(0) =>
                    mul_mat4_vec4(res, QMvec4_xyz_w(p, F(0))) = QMvec4_xyz_w(p, F(0))
        /\ op = "QM_translate_vec2" =>
              \A i \in 0..2 : \A j \in 0..2 :
                    res[i][j] = IF i = 2 /\ j = 0 THEN t.x
                                ELSE IF i = 2 /\ j = 1 THEN t.y
                                ELSE IF i = j THEN F(1) ELSE F(0)

\* translate((1,2,3)) * (0,0,0,1) = (1,2,3,1)
C6_Witness ==
    /\ op = "QM_translate_vec3"
    /\ arg.t = QMvec3(F(1), F(2), F(3))
    /\ arg.p = QMvec3(F(0), F(0), F(0))
    /\ arg.w = F(1)
    /\ mul_mat4_vec4(res, QMvec4_xyz_w(arg.p, arg.w)) = QMvec4(F(1), F(2), F(3), F(1))


----------------------------------------------------------------------------
(* Callers that rotate: an axis, an angle in degrees and a vector v.  The   *)
(* axes are those whose length sqrtf gives exactly, the angles multiples of *)
(* 45 degrees.                                                              *)

Axes == {a \in Vec3s(-MaxAxis, MaxAxis) : ExactSqrt(QM_dot_vec3(a, a))}

Angles == {F(45 * k) : k \in -MaxAngle..MaxAngle}

InitRot ==
    /\ QM_USE_SSE \in BOOLEAN
    /\ op = "init"
    /\ arg \in [axis : Axes, angle : Angles, v : Vec3s(0, MaxRotV)]
    /\ res = None

\* QM_rotate(float angle)
CallRotateAngle ==
    /\ op = "init"
    /\ Return("QM_rotate_angle", QM_rotate_angle(arg.angle))

\* QM_rotate(QMvec3 axis, float angle)
CallRotateAxis ==
    /\ op = "init"
    /\ Return("QM_rotate_axis", QM_rotate_axis(arg.axis, arg.angle))

\* the half angle has to be a multiple of 45 degrees too
CallQuaternionFromAxisAngle ==
    /\ op = "init"
    /\ ExactAngle(QM_deg_to_rad(FMul(arg.angle, Half)))
    /\ Return("QM_quaternion_from_axis_angle", QM_quaternion_from_axis_angle(arg.axis, arg.angle))

NextRot == CallRotateAngle \/ CallRotateAxis \/ CallQuaternionFromAxisAngle

SpecRot == InitRot /\ [][NextRot]_vars

ZeroVec3 == QMvec3(F(0), F(0), F(0))

\* C2: for every non-zero axis, angle and vector v,
\* QM_quaternion_to_mat4(QM_quaternion_from_axis_angle(axis, angle)) * v equals
\* QM_rotate(axis, angle) * v: the quaternion route and the matrix route turn
\* the same way.
C2_QuaternionRouteEqualsMatrixRoute ==
    (op = "QM_quaternion_from_axis_angle" /\ arg.axis # ZeroVec3) =>
        mul_mat4_vec4(QM_quaternion_to_mat4(res), QMvec4_xyz_w(arg.v, F(1)))
            = mul_mat4_vec4(QM_rotate_axis(arg.axis, arg.angle), QMvec4_xyz_w(arg.v, F(1)))

\* C7: for every non-zero axis and every angle, QM_rotate(axis, angle) *
\* QM_rotate(axis, -angle) is the 4x4 identity.
C7_RotateTimesInverseRotation ==
    (op = "QM_rotate_axis" /\ arg.axis # ZeroVec3) =>
        mul_mat4_mat4(res, QM_rotate_axis(arg.axis, FNeg(arg.angle))) = QM_mat4_identity

\* an axis off the coordinate axes, of length 3, turned by 45 degrees
C7_Witness ==
    /\ op = "QM_rotate_axis"
    /\ QM_USE_SSE
    /\ arg.axis = QMvec3(F(1), F(2), F(2))
    /\ arg.angle = F(45)
    /\ res # QM_mat4_identity
    /\ mul_mat4_mat4(res, QM_rotate_axis(arg.axis, FNeg(arg.angle))) = QM_mat4_identity

\* C8: QM_rotate(angle) for 3x3 is the standard 2-d rotation in the top-left 2x2
\* of an identity matrix: column 0 is (cos, sin, 0) and column 1 is (-sin, cos, 0),
\* so for angle = 90 degrees it takes (1,0,1) to (0,1,1), counter-clockwise.
C8_Rotate2dCounterClockwise ==
    LET sine   == QM_SINF(QM_deg_to_rad(arg.angle))
        cosine == QM_COSF(QM_deg_to_rad(arg.angle))
    IN  op = "QM_rotate_angle" =>
            /\ <<res[0][0], res[0][1], res[0][2]>> = <<cosine, sine, F(0)>>
            /\ <<res[1][0], res[1][1], res[1][2]>> = <<FNeg(sine), cosine, F(0)>>
            /\ <<res[2][0], res[2][1], res[2][2]>> = <<F(0), F(0), F(1)>>
            /\ arg.angle = F(90) =>
                  mul_mat3_vec3(res, QMvec3(F(1), F(0), F(1))) = QMvec3(F(0), F(1), F(1))

----------------------------------------------------------------------------
(* Callers with one matrix m, 3x3 or 4x4; the overload called is the one of *)
(* m's type.                                                                *)

Mats3 == {QMmat3(s) : s \in [1..9 -> Floats(-MaxEntry3, MaxEntry3)]}

Mats4 == {QMmat4(s) : s \in [1..16 -> Floats(0, MaxEntry4)]}

InitMat ==
    /\ QM_USE_SSE \in BOOLEAN
    /\ op = "init"
    /\ arg \in [m : Mats3 \cup Mats4]
    /\ res = None

IsMat3(m) == DOMAIN m = 0..2

IsMat4(m) == DOMAIN m = 0..3

CallTranspose3 ==
    /\ op = "init"
    /\ IsMat3(arg.m)
    /\ Return("QM_transpose_mat3", QM_transpose_mat3(arg.m))

CallTranspose4 ==
    /\ op = "init"
    /\ IsMat4(arg.m)
    /\ Return("QM_transpose_mat4", QM_transpose_mat4(arg.m))

CallInverse3 ==
    /\ op = "init"
    /\ IsMat3(arg.m)
    /\ Return("QM_inverse_mat3", QM_inverse_mat3(arg.m))

CallInverse4 ==
    /\ op = "init"
    /\ IsMat4(arg.m)
    /\ Return("QM_inverse_mat4", QM_inverse_mat4(arg.m))

NextMat == CallTranspose3 \/ CallTranspose4 \/ CallInverse3 \/ CallInverse4

SpecMat == InitMat /\ [][NextMat]_vars

\* the determinant of the n x n integer matrix m stands for, by expansion along
\* its first index: sum over j of (-1)^j * m[0][j] * det(m without 0 and j)
Minor(A, n, c) ==
    [i \in 0..(n - 2) |-> [j \in 0..(n - 2) |-> A[i + 1][IF j < c THEN j ELSE j + 1]]]

RECURSIVE Det(_, _)
Det(A, n) ==
    LET term(j) == (IF j % 2 = 0 THEN 1 ELSE -1) * A[0][j] * Det(Minor(A, n, j), n - 1)
    IN  IF n = 1 THEN A[0][0]
        ELSE IF n = 2 THEN term(0) + term(1)
        ELSE IF n = 3 THEN term(0) + term(1) + term(2)
        ELSE term(0) + term(1) + term(2) + term(3)

IntMat(m, n) == [i \in 0..(n - 1) |-> [j \in 0..(n - 1) |-> IntOf(m[i][j])]]

\* s times the identity
Scaled3(s) ==
    QMmat3(<<s, F(0), F(0),
             F(0), s, F(0),
             F(0), F(0), s>>)

Scaled4(s) ==
    QMmat4(<<s, F(0), F(0), F(0),
             F(0), s, F(0), F(0),
             F(0), F(0), s, F(0),
             F(0), F(0), F(0), s>>)

\* the entries QM_inverse(QMmat3) holds before it scales them: the result times det
Unscaled3(r, det) ==
    [i \in 0..2 |-> [j \in 0..2 |-> FMul(r[i][j], det)]]

\* C3: for every 4x4 matrix M with non-zero determinant, M * QM_inverse(M) and
\* QM_inverse(M) * M are the 4x4 identity; the sixteen unscaled cofactors form
\* the adjugate of M (M * cofactors = det(M) * identity) and
\* a*r[0][0] + b*r[1][0] + c*r[2][0] + d*r[3][0] is det(M).
C3_Mat4Inverse ==
    LET M   == arg.m
        det == Det(IntMat(M, 4), 4)
        cof == QM_inverse_mat4_cofactors(M)
        r   == cof.result
    IN  (op = "QM_inverse_mat4" /\ det # 0) =>
            /\ mul_mat4_mat4(M, res) = QM_mat4_identity
            /\ mul_mat4_mat4(res, M) = QM_mat4_identity
            /\ mul_mat4_mat4(M, r) = Scaled4(F(det))
            /\ FAdd(FAdd(FAdd(FMul(M[0][0], r[0][0]), FMul(M[0][1], r[1][0])),
                         FMul(M[0][2], r[2][0])), FMul(M[0][3], r[3][0])) = F(det)
            /\ cof.det = Frac(1, det)

\* a 4x4 matrix of determinant 3, inverted by the SSE build
C3_Witness ==
    /\ op = "QM_inverse_mat4"
    /\ QM_USE_SSE
    /\ Det(IntMat(arg.m, 4), 4) = 3
    /\ res # arg.m
    /\ mul_mat4_mat4(arg.m, res) = QM_mat4_identity

\* C4: for every 3x3 matrix M with non-zero determinant, M * QM_inverse(M) and
\* QM_inverse(M) * M are the 3x3 identity; the nine unscaled entries form the
\* adjugate of M (M * entries = det(M) * identity) and
\* a*r[0][0] + b*r[1][0] + c*r[2][0] is det(M).
C4_Mat3Inverse ==
    LET M   == arg.m
        det == Det(IntMat(M, 3), 3)
        r   == Unscaled3(res, F(det))
    IN  (op = "QM_inverse_mat3" /\ det # 0) =>
            /\ mul_mat3_mat3(M, res) = QM_mat3_identity
            /\ mul_mat3_mat3(res, M) = QM_mat3_identity
            /\ mul_mat3_mat3(M, r) = Scaled3(F(det))
            /\ FAdd(FAdd(FMul(M[0][0], r[0][0]), FMul(M[0][1], r[1][0])),
                    FMul(M[0][2], r[2][0])) = F(det)

\* a 3x3 matrix of determinant -4 with no zero entry
C4_Witness ==
    /\ op = "QM_inverse_mat3"
    /\ Det(IntMat(arg.m, 3), 3) = -4
    /\ \A i \in 0..2 : \A j \in 0..2 : arg.m[i][j] # F(0)
    /\ mul_mat3_mat3(arg.m, res) = QM_mat3_identity

\* C5: for every 3x3 and 4x4 matrix M, QM_transpose(M).m[i][j] = M.m[j][i] for
\* all i, j, and QM_transpose(QM_transpose(M)) = M; the argument M is not
\* modified by the call.
C5_Transpose ==
    /\ [](/\ op = "QM_transpose_mat3" =>
                /\ \A i \in 0..2 : \A j \in 0..2 : res[i][j] = arg.m[j][i]
                /\ QM_transpose_mat3(res) = arg.m
          /\ op = "QM_transpose_mat4" =>
                /\ \A i \in 0..3 : \A j \in 0..3 : res[i][j] = arg.m[j][i]
                /\ QM_transpose_mat4(res) = arg.m)
    /\ [][op' \in {"QM_transpose_mat3", "QM_transpose_mat4"} => arg' = arg]_vars

\* a 4x4 matrix that is not symmetric, transposed by the SSE build
C5_Witness ==
    /\ op = "QM_transpose_mat4"
    /\ QM_USE_SSE
    /\ res # arg.m
    /\ res[0][3] = arg.m[3][0]
    /\ QM_transpose_mat4(res) = arg.m


----------------------------------------------------------------------------
(* Callers that interpolate: two unit quaternions q1, q2 and a parameter a  *)
(* in [0,1].  The calls made are those on which acosf and sinf are exact.   *)

UnitComponents == {F(0), F(1), F(-1), Half, FNeg(Half), HalfSqrt2, FNeg(HalfSqrt2)}

UnitQuats ==
    {q \in {QMquaternion(x, y, z, w) : x \in UnitComponents, y \in UnitComponents,
                                        z \in UnitComponents, w \in UnitComponents} :
        FAdd(FAdd(FAdd(FMul(q.x, q.x), FMul(q.y, q.y)), FMul(q.z, q.z)), FMul(q.w, q.w)) = F(1)}

InitSlerp ==
    /\ QM_USE_SSE \in BOOLEAN
    /\ op = "init"
    /\ arg \in [q1 : UnitQuats, q2 : UnitQuats, a : {Frac(k, MaxA) : k \in 0..MaxA}]
    /\ res = None

CallSlerp ==
    /\ op = "init"
    /\ ExactAcos(QM_dot_quat(arg.q1, arg.q2))
    /\ ExactAngle(FMul(FSub(F(1), arg.a), QM_ACOSF(QM_dot_quat(arg.q1, arg.q2))))
    /\ ExactAngle(FMul(arg.a, QM_ACOSF(QM_dot_quat(arg.q1, arg.q2))))
    /\ Return("QM_slerp", QM_slerp(arg.q1, arg.q2, arg.a))

NextSlerp == CallSlerp

SpecSlerp == InitSlerp /\ [][NextSlerp]_vars

\* C12: for any unit quaternion q and any a in [0,1], QM_slerp(q, q, a) returns
\* q: no division by zero, no NaN.
C12_SlerpOfEqualQuaternions ==
    (op = "QM_slerp" /\ arg.q1 = arg.q2) => res = arg.q1

----------------------------------------------------------------------------
(* Callers that project: a field of view in degrees, an aspect ratio and    *)
(* the two clipping planes.  tanf is exact on the half fields of view.      *)

InitPerspective ==
    /\ QM_USE_SSE \in BOOLEAN
    /\ op = "init"
    /\ arg \in [fov : {F(45 * k) : k \in 1..MaxFov},
                aspect : {Frac(k, 2) : k \in 1..MaxAspect},
                near : {Frac(k, 10) : k \in 1..MaxNear},
                far : {F(k) : k \in 1..MaxFar} \cup {F(100)}]
    /\ res = None

CallPerspective ==
    /\ op = "init"
    /\ ExactTan(QM_deg_to_rad(FMul(arg.fov, Half)))
    /\ Return("QM_perspective", QM_perspective(arg.fov, arg.aspect, arg.near, arg.far))

NextPerspective == CallPerspective

SpecPerspective == InitPerspective /\ [][NextPerspective]_vars

\* C13: QM_perspective(fov, aspect, near, far) has every entry other than
\* m[0][0], m[1][1], m[2][2], m[3][2], m[2][3] equal to 0, m[3][3] included;
\* m[2][3] = -1, m[2][2] = -(far+near)/(far-near),
\* m[3][2] = -2*far*near/(far-near), m[0][0] = near/(aspect*scale) and
\* m[1][1] = near/scale with scale = tan(fov/2)*near, so m[0][0] = m[1][1]
\* whenever aspect = 1.
C13_Perspective ==
    LET scale == FMul(QM_TANF(FMul(arg.fov, Frac(1, 360))), arg.near)
        set   == {<<0, 0>>, <<1, 1>>, <<2, 2>>, <<3, 2>>, <<2, 3>>}
    IN  op = "QM_perspective" =>
            /\ \A i \in 0..3 : \A j \in 0..3 : <<i, j>> \notin set => res[i][j] = F(0)
            /\ res[2][3] = F(-1)
            /\ res[2][2] = FNeg(FDiv(FAdd(arg.far, arg.near), FSub(arg.far, arg.near)))
            /\ res[3][2] = FNeg(FDiv(FMul(F(2), FMul(arg.far, arg.near)),
                                     FSub(arg.far, arg.near)))
            /\ res[0][0] = FDiv(arg.near, FMul(arg.aspect, scale))
            /\ res[1][1] = FDiv(arg.near, scale)
            /\ arg.aspect = F(1) => res[0][0] = res[1][1]

\* perspective(90, 1.0, 0.1, 100.0)
C13_Witness ==
    /\ op = "QM_perspective"
    /\ arg = [fov |-> F(90), aspect |-> F(1), near |-> Frac(1, 10), far |-> F(100)]
    /\ res[0][0] = F(1)
    /\ res[1][1] = F(1)
    /\ res[2][3] = F(-1)
    /\ res[2][2] = Frac(-1001, 999)
    /\ res[3][2] = Frac(-200, 999)
    /\ res[3][3] = F(0)

----------------------------------------------------------------------------
(* Callers that construct a vector from two parts, head and tail, each a    *)
(* float, a QMvec2 or a QMvec3.  A constructor can be called when the types *)
(* of the parts are the types of its parameters.                            *)

\* a part is its type and its floats in order (the array view v[] of the unions)
Typed(type, n) == {[type |-> type, v |-> v] : v \in [1..n -> Floats(-MaxC, MaxC)]}

Parts == Typed("float", 1) \cup Typed("QMvec2", 2) \cup Typed("QMvec3", 3)

\* the float, QMvec2 or QMvec3 a part is
Value(part) ==
    CASE part.type = "float" -> part.v[1]
      [] part.type = "QMvec2" -> QMvec2(part.v[1], part.v[2])
      [] part.type = "QMvec3" -> QMvec3(part.v[1], part.v[2], part.v[3])

InitConstruct ==
    /\ QM_USE_SSE \in BOOLEAN
    /\ op = "init"
    /\ arg \in [head : Parts, tail : Parts]
    /\ res = None

CallVec3_xy_z ==
    /\ op = "init"
    /\ <<arg.head.type, arg.tail.type>> = QMvec3_xy_z_params
    /\ Return("QMvec3_xy_z", QMvec3_xy_z(Value(arg.head), Value(arg.tail)))

CallVec3_x_yz ==
    /\ op = "init"
    /\ <<arg.head.type, arg.tail.type>> = QMvec3_x_yz_params
    /\ Return("QMvec3_x_yz", QMvec3_x_yz(Value(arg.head), Value(arg.tail)))

CallVec4_xyz_w ==
    /\ op = "init"
    /\ <<arg.head.type, arg.tail.type>> = QMvec4_xyz_w_params
    /\ Return("QMvec4_xyz_w", QMvec4_xyz_w(Value(arg.head), Value(arg.tail)))

CallVec4_x_yzw ==
    /\ op = "init"
    /\ <<arg.head.type, arg.tail.type>> = QMvec4_x_yzw_params
    /\ Return("QMvec4_x_yzw", QMvec4_x_yzw(Value(arg.head), Value(arg.tail)))

CallVec4_xy_zw ==
    /\ op = "init"
    /\ <<arg.head.type, arg.tail.type>> = QMvec4_xy_zw_params
    /\ Return("QMvec4_xy_zw", QMvec4_xy_zw(Value(arg.head), Value(arg.tail)))

NextConstruct ==
    CallVec3_xy_z \/ CallVec3_x_yz \/ CallVec4_xyz_w \/ CallVec4_x_yzw \/ CallVec4_xy_zw

SpecConstruct == InitConstruct /\ [][NextConstruct]_vars

\* whether the caller holds parts of these two types and has not constructed yet
Holds(headType, tailType) ==
    op = "init" /\ arg.head.type = headType /\ arg.tail.type = tailType

\* C14: a Vector3 can be constructed from (Vector2 v, scalar s), giving
\* (v.x, v.y, s), and from (scalar s, Vector2 v), giving (s, v.x, v.y); a
\* Vector4 from (Vector3 v, s) gives (v.x, v.y, v.z, s), from (s, Vector3 v)
\* gives (s, v.x, v.y, v.z), and from (Vector2 a, Vector2 b) gives
\* (a.x, a.y, b.x, b.y).
C14_Constructors ==
    LET h == Value(arg.head)
        t == Value(arg.tail)
    IN  /\ Holds("QMvec2", "float") => ENABLED CallVec3_xy_z
        /\ Holds("float", "QMvec2") => ENABLED CallVec3_x_yz
        /\ Holds("QMvec3", "float") => ENABLED CallVec4_xyz_w
        /\ Holds("float", "QMvec3") => ENABLED CallVec4_x_yzw
        /\ Holds("QMvec2", "QMvec2") => ENABLED CallVec4_xy_zw
        /\ op = "QMvec3_xy_z" => res = QMvec3(h.x, h.y, t)
        /\ op = "QMvec3_x_yz" => res = QMvec3(h, t.x, t.y)
        /\ op = "QMvec4_xyz_w" => res = QMvec4(h.x, h.y, h.z, t)
        /\ op = "QMvec4_x_yzw" => res = QMvec4(h, t.x, t.y, t.z)
        /\ op = "QMvec4_xy_zw" => res = QMvec4(h.x, h.y, t.x, t.y)

----------------------------------------------------------------------------
(* Callers that multiply two matrices a, b of one type.  The factors are    *)
(* the identity, the matrices with a single non-zero entry (the product is  *)
(* bilinear by construction) and dense matrices with sixteen or nine        *)
(* distinct entries.                                                        *)

Unit(n, i, j, s) == [c \in 0..(n - 1) |-> [r \in 0..(n - 1) |-> IF c = i /\ r = j THEN F(s) ELSE F(0)]]

Ramp(n, k) == [c \in 0..(n - 1) |-> [r \in 0..(n - 1) |-> F(k + c * n + r)]]

Factors(n) ==
    {Unit(n, i, j, s) : i \in 0..(n - 1), j \in 0..(n - 1), s \in (-MaxUnit)..MaxUnit}
        \cup {Ramp(n, k) : k \in (-MaxRamp)..MaxRamp}
        \cup {IF n = 3 THEN QM_mat3_identity ELSE QM_mat4_identity}

InitMul ==
    /\ QM_USE_SSE \in BOOLEAN
    /\ op = "init"
    /\ arg \in [a : Factors(3), b : Factors(3)] \cup [a : Factors(4), b : Factors(4)]
    /\ res = None

CallMul3 ==
    /\ op = "init"
    /\ IsMat3(arg.a)
    /\ Return("mul_mat3_mat3", mul_mat3_mat3(arg.a, arg.b))

CallMul4 ==
    /\ op = "init"
    /\ IsMat4(arg.a)
    /\ Return("mul_mat4_mat4", mul_mat4_mat4(arg.a, arg.b))

NextMul == CallMul3 \/ CallMul4

SpecMul == InitMul /\ [][NextMul]_vars

\* entry (column j, row r) of the product of the integer matrices A and B:
\* the sum over k of A's column k, row r, times B's column j, row k
RECURSIVE Entry(_, _, _, _, _)
Entry(A, B, j, r, k) ==
    IF k < 0 THEN 0 ELSE A[k][r] * B[j][k] + Entry(A, B, j, r, k - 1)

\* C15: for 3x3 and 4x4 matrices A and B, column j of A * B is the sum over k
\* of column k of A scaled by B.m[j][k]; A * identity = identity * A = A; the
\* 4x4 accelerated path gives the same sixteen entries as the scalar sums.
C15_MatrixProduct ==
    LET n == IF op = "mul_mat3_mat3" THEN 3 ELSE 4
        A == IntMat(arg.a, n)
        B == IntMat(arg.b, n)
        I == IF n = 3 THEN QM_mat3_identity ELSE QM_mat4_identity
    IN  op \in {"mul_mat3_mat3", "mul_mat4_mat4"} =>
            /\ \A j \in 0..(n - 1) : \A r \in 0..(n - 1) :
                  res[j][r] = F(Entry(A, B, j, r, n - 1))
            /\ arg.b = I => res = arg.a
            /\ arg.a = I => res = arg.b
            /\ op = "mul_mat4_mat4" => res = mul_mat4_mat4_scalar(arg.a, arg.b)

\* two dense 4x4 factors that do not commute, multiplied by the SSE build
C15_Witness ==
    /\ op = "mul_mat4_mat4"
    /\ QM_USE_SSE
    /\ arg.a = Ramp(4, 0)
    /\ arg.b = Ramp(4, 1)
    /\ res # mul_mat4_mat4_scalar(arg.b, arg.a)
    /\ res = mul_mat4_mat4_scalar(arg.a, arg.b)
    /\ res[3][3] = F(12 * 3 + 13 * 7 + 14 * 11 + 15 * 15 + 1 * (3 + 7 + 11 + 15))

----------------------------------------------------------------------------
(* Callers that multiply two quaternions q1, q2.                            *)

InitQuatMul ==
    /\ QM_USE_SSE \in BOOLEAN
    /\ op = "init"
    /\ arg \in [q1 : Quats(-MaxH1, MaxH1), q2 : Quats(0, MaxH2)]
    /\ res = None

CallMulQuat ==
    /\ op = "init"
    /\ Return("mul_quat_quat", mul_quat_quat(arg.q1, arg.q2))

NextQuatMul == CallMulQuat

SpecQuatMul == InitQuatMul /\ [][NextQuatMul]_vars

\* C16: for all quaternions q1, q2, q1 * q2 is the Hamilton product
\* x = w1x2 + x1w2 + y1z2 - z1y2, y = w1y2 - x1z2 + y1w2 + z1x2,
\* z = w1z2 + x1y2 - y1x2 + z1w2, w = w1w2 - x1x2 - y1y2 - z1z2, on the
\* accelerated path as on the scalar one; the identity (0,0,0,1) is a
\* two-sided unit.  (That the product does not commute is C16_Witness.)
C16_HamiltonProduct ==
    LET x1 == IntOf(arg.q1.x)
        y1 == IntOf(arg.q1.y)
        z1 == IntOf(arg.q1.z)
        w1 == IntOf(arg.q1.w)
        x2 == IntOf(arg.q2.x)
        y2 == IntOf(arg.q2.y)
        z2 == IntOf(arg.q2.z)
        w2 == IntOf(arg.q2.w)
    IN  op = "mul_quat_quat" =>
            /\ res = QMquaternion(F(w1 * x2 + x1 * w2 + y1 * z2 - z1 * y2),
                                  F(w1 * y2 - x1 * z2 + y1 * w2 + z1 * x2),
                                  F(w1 * z2 + x1 * y2 - y1 * x2 + z1 * w2),
                                  F(w1 * w2 - x1 * x2 - y1 * y2 - z1 * z2))
            /\ res = mul_quat_quat_scalar(arg.q1, arg.q2)
            /\ arg.q2 = QM_quaternion_identity => res = arg.q1
            /\ arg.q1 = QM_quaternion_identity => res = arg.q2
            /\ mul_quat_quat(QM_quaternion_identity, arg.q1) = arg.q1
            /\ mul_quat_quat(arg.q1, QM_quaternion_identity) = arg.q1

\* i * j = k and j * i = -k, on the accelerated path
C16_Witness ==
    /\ op = "mul_quat_quat"
    /\ QM_USE_SSE
    /\ arg.q1 = QMquaternion(F(1), F(0), F(0), F(0))
    /\ arg.q2 = QMquaternion(F(0), F(1), F(0), F(0))
    /\ res = QMquaternion(F(0), F(0), F(1), F(0))
    /\ mul_quat_quat(arg.q2, arg.q1) = QMquaternion(F(0), F(0), F(-1), F(0))

----------------------------------------------------------------------------
(* Callers that normalize one quaternion q whose length sqrtf gives         *)
(* exactly.                                                                 *)

CallLengthQuat ==
    /\ op = "init"
    /\ ExactSqrt(QM_dot_quat(arg.q, arg.q))
    /\ Return("QM_length_quat", QM_length_quat(arg.q))

CallNormalizeQuat ==
    /\ op = "init"
    /\ ExactSqrt(QM_dot_quat(arg.q, arg.q))
    /\ Return("QM_normalize_quat", QM_normalize_quat(arg.q))

NextQuatNormalize == CallLengthQuat \/ CallNormalizeQuat

SpecQuatNormalize == InitQuat /\ [][NextQuatNormalize]_vars

ZeroQuat == QMquaternion(F(0), F(0), F(0), F(0))

\* C17 as stated: quaternion QM_normalize has the zero-guard asymmetry of the
\* vectors: the scalar path guards a zero length and returns the zero
\* quaternion, the accelerated (QM_USE_SSE) path does not guard and divides the
\* components by the zero length (0/0, not a number).
C17_NormalizeQuatAsymmetry ==
    (op = "QM_normalize_quat" /\ arg.q = ZeroQuat) =>
        IF QM_USE_SSE
        THEN IsNaN(res.x) /\ IsNaN(res.y) /\ IsNaN(res.z) /\ IsNaN(res.w)
        ELSE res = ZeroQuat

\* C17 amended: quaternion QM_normalize guards a zero length in both builds and
\* returns the zero quaternion, never dividing by the zero length; a non-zero
\* q gives q divided by QM_length(q).
C17_NormalizeQuatGuarded ==
    LET q == arg.q
        n == F(IntOf(q.x) * IntOf(q.x) + IntOf(q.y) * IntOf(q.y) + IntOf(q.z) * IntOf(q.z)
                 + IntOf(q.w) * IntOf(q.w))
    IN  op = "QM_normalize_quat" =>
            IF q = ZeroQuat
            THEN res = ZeroQuat
            ELSE /\ IsQuotient(res.x, q.x, QM_length_quat(q), n)
                 /\ IsQuotient(res.y, q.y, QM_length_quat(q), n)
                 /\ IsQuotient(res.z, q.z, QM_length_quat(q), n)
                 /\ IsQuotient(res.w, q.w, QM_length_quat(q), n)

\* the zero quaternion normalized by the accelerated build
C17_Witness ==
    /\ op = "QM_normalize_quat"
    /\ QM_USE_SSE
    /\ arg.q = ZeroQuat
    /\ res = ZeroQuat

----------------------------------------------------------------------------
(* Callers that rotate by Euler angles (x, y, z), multiples of 45 degrees.  *)

InitEuler ==
    /\ QM_USE_SSE \in BOOLEAN
    /\ op = "init"
    /\ arg \in [euler : {QMvec3(F(45 * i), F(45 * j), F(45 * k)) :
                            i \in (-MaxEuler)..MaxEuler, j \in (-MaxEuler)..MaxEuler,
                            k \in (-MaxEuler)..MaxEuler}]
    /\ res = None

CallRotateEuler ==
    /\ op = "init"
    /\ Return("QM_rotate_euler", QM_rotate_euler(arg.euler))

NextEuler == CallRotateEuler

SpecEuler == InitEuler /\ [][NextEuler]_vars

\* C18: QM_rotate(euler) with euler = (x, y, z) is Rz(z) * Ry(y) * Rx(x), where
\* Rx, Ry, Rz are what QM_rotate(axis, angle) gives for the axes (1,0,0),
\* (0,1,0), (0,0,1); column 0 = (cosY cosZ, cosY sinZ, -sinY), column 1 =
\* (sinX sinY cosZ - cosX sinZ, sinX sinY sinZ + cosX cosZ, sinX cosY),
\* column 2 = (cosX sinY cosZ + sinX sinZ, cosX sinY sinZ - sinX cosZ,
\* cosX cosY), last row and column those of the identity.
C18_EulerIsZYX ==
    LET e  == arg.euler
        Rx == QM_rotate_axis(QMvec3(F(1), F(0), F(0)), e.x)
        Ry == QM_rotate_axis(QMvec3(F(0), F(1), F(0)), e.y)
        Rz == QM_rotate_axis(QMvec3(F(0), F(0), F(1)), e.z)
        sX == QM_SINF(FMul(e.x, Frac(1, 180)))
        cX == QM_COSF(FMul(e.x, Frac(1, 180)))
        sY == QM_SINF(FMul(e.y, Frac(1, 180)))
        cY == QM_COSF(FMul(e.y, Frac(1, 180)))
        sZ == QM_SINF(FMul(e.z, Frac(1, 180)))
        cZ == QM_COSF(FMul(e.z, Frac(1, 180)))
    IN  op = "QM_rotate_euler" =>
            /\ res = mul_mat4_mat4(mul_mat4_mat4(Rz, Ry), Rx)
            /\ <<res[0][0], res[0][1], res[0][2], res[0][3]>>
                   = <<FMul(cY, cZ), FMul(cY, sZ), FNeg(sY), F(0)>>
            /\ <<res[1][0], res[1][1], res[1][2], res[1][3]>>
                   = <<FSub(FMul(sX, FMul(sY, cZ)), FMul(cX, sZ)),
                       FAdd(FMul(sX, FMul(sY, sZ)), FMul(cX, cZ)), FMul(sX, cY), F(0)>>
            /\ <<res[2][0], res[2][1], res[2][2], res[2][3]>>
                   = <<FAdd(FMul(cX, FMul(sY, cZ)), FMul(sX, sZ)),
                       FSub(FMul(cX, FMul(sY, sZ)), FMul(sX, cZ)), FMul(cX, cY), F(0)>>
            /\ <<res[3][0], res[3][1], res[3][2], res[3][3]>> = <<F(0), F(0), F(0), F(1)>>

\* three different angles, none a multiple of 90 degrees in x and z
C18_Witness ==
    /\ op = "QM_rotate_euler"
    /\ arg.euler = QMvec3(F(45), F(90), F(135))
    /\ res[0][2] = F(-1)
    /\ res = mul_mat4_mat4(mul_mat4_mat4(QM_rotate_axis(QMvec3(F(0), F(0), F(1)), F(135)),
                                         QM_rotate_axis(QMvec3(F(0), F(1), F(0)), F(90))),
                           QM_rotate_axis(QMvec3(F(1), F(0), F(0)), F(45)))

----------------------------------------------------------------------------
(* Callers that build a quaternion from Euler angles; the half angles are   *)
(* multiples of 45 degrees.                                                 *)

InitFromEuler ==
    /\ QM_USE_SSE \in BOOLEAN
    /\ op = "init"
    /\ arg \in [angles : {QMvec3(F(90 * i), F(90 * j), F(90 * k)) :
                             i \in (-MaxQuarter)..MaxQuarter, j \in (-MaxQuarter)..MaxQuarter,
                             k \in (-MaxQuarter)..MaxQuarter}]
    /\ res = None

CallQuaternionFromEuler ==
    /\ op = "init"
    /\ Return("QM_quaternion_from_euler", QM_quaternion_from_euler(arg.angles))

NextFromEuler == CallQuaternionFromEuler

SpecFromEuler == InitFromEuler /\ [][NextFromEuler]_vars

\* C19: QM_quaternion_from_euler gives, on the accelerated path as on the
\* scalar one, x = sx*cy*cz - cx*sy*sz, y = cx*sy*cz + sx*cy*sz,
\* z = cx*cy*sz - sx*sy*cz, w = cx*cy*cz + sx*sy*sz, where sx, cx, ... are the
\* sines and cosines of the half angles.
C19_FromEulerPathsAgree ==
    LET sx == QM_SINF(FMul(arg.angles.x, Frac(1, 360)))
        cx == QM_COSF(FMul(arg.angles.x, Frac(1, 360)))
        sy == QM_SINF(FMul(arg.angles.y, Frac(1, 360)))
        cy == QM_COSF(FMul(arg.angles.y, Frac(1, 360)))
        sz == QM_SINF(FMul(arg.angles.z, Frac(1, 360)))
        cz == QM_COSF(FMul(arg.angles.z, Frac(1, 360)))
        P(a, b, c) == FMul(a, FMul(b, c))
    IN  op = "QM_quaternion_from_euler" =>
            /\ res.x = FSub(P(sx, cy, cz), P(cx, sy, sz))
            /\ res.y = FAdd(P(cx, sy, cz), P(sx, cy, sz))
            /\ res.z = FSub(P(cx, cy, sz), P(sx, sy, cz))
            /\ res.w = FAdd(P(cx, cy, cz), P(sx, sy, sz))

\* half angles of 45 degrees each on the accelerated path: every product is
\* sqrt(2)/4, so x = z = 0 and y = w = sqrt(2)/2
C19_Witness ==
    /\ op = "QM_quaternion_from_euler"
    /\ QM_USE_SSE
    /\ arg.angles = QMvec3(F(90), F(90), F(90))
    /\ res = QMquaternion(F(0), HalfSqrt2, F(0), HalfSqrt2)

----------------------------------------------------------------------------
(* Callers that build a view matrix.                                        *)

InitLook ==
    /\ QM_USE_SSE \in BOOLEAN
    /\ op = "init"
    /\ arg \in [pos : Vec3s(-MaxLook, MaxLook), dir : Vec3s(-MaxLook, MaxLook),
                up : Vec3s(-MaxLook, MaxLook)]
    /\ res = None

\* the square roots that QM_look(pos, dir, up) takes are exact
LookExact(dir, up) ==
    LET c == QM_cross(up, dir) IN ExactSqrt(QM_dot_vec3(c, c))

CallLook ==
    /\ op = "init"
    /\ LookExact(arg.dir, arg.up)
    /\ Return("QM_look", QM_look(arg.pos, arg.dir, arg.up))

\* arg.dir is the target
CallLookat ==
    /\ op = "init"
    /\ ExactSqrt(QM_dot_vec3(sub_vec3_vec3(arg.pos, arg.dir), sub_vec3_vec3(arg.pos, arg.dir)))
    /\ LookExact(QM_normalize_vec3(sub_vec3_vec3(arg.pos, arg.dir)), arg.up)
    /\ Return("QM_lookat", QM_lookat(arg.pos, arg.dir, arg.up))

NextLook == CallLook \/ CallLookat

SpecLook == InitLook /\ [][NextLook]_vars

\* the matrix whose rows 0, 1, 2 are right = normalize(cross(up, dir)),
\* realUp = cross(dir, right) and dir, with fourth column
\* (-dot(right, pos), -dot(realUp, pos), -dot(dir, pos), 1) and fourth row
\* (0, 0, 0, 1)
View(pos, dir, up) ==
    LET right == QM_normalize_vec3(QM_cross(up, dir))
        realUp == QM_cross(dir, right)
        row == <<right, realUp, dir>>
        comp(v, c) == IF c = 0 THEN v.x ELSE IF c = 1 THEN v.y ELSE v.z
    IN  [c \in 0..3 |-> [rw \in 0..3 |->
            IF rw = 3 THEN (IF c = 3 THEN F(1) ELSE F(0))
            ELSE IF c = 3 THEN FNeg(QM_dot_vec3(row[rw + 1], pos))
            ELSE comp(row[rw + 1], c)]]

\* C20: QM_look(pos, dir, up) has rows right, realUp, dir in its top-left
\* 3x3, fourth column (-dot(right,pos), -dot(realUp,pos), -dot(dir,pos), 1)
\* and fourth row (0,0,0,1); QM_lookat(pos, target, up) is
\* QM_look(pos, normalize(pos - target), up).
C20_LookIsRotationTimesTranslation ==
    /\ op = "QM_look" => res = View(arg.pos, arg.dir, arg.up)
    /\ op = "QM_lookat" =>
           res = View(arg.pos, QM_normalize_vec3(sub_vec3_vec3(arg.pos, arg.dir)), arg.up)

\* looking along z from (1, 1, 1) with up = y: right = x, realUp = y, and the
\* fourth column is (-1, -1, -1, 1)
C20_Witness ==
    /\ op = "QM_look"
    /\ arg.pos = QMvec3(F(1), F(1), F(1))
    /\ arg.dir = QMvec3(F(0), F(0), F(1))
    /\ arg.up = QMvec3(F(0), F(1), F(0))
    /\ res = QMmat4(<<F(1),  F(0),  F(0),  F(0),
                      F(0),  F(1),  F(0),  F(0),
                      F(0),  F(0),  F(1),  F(0),
                      F(-1), F(-1), F(-1), F(1)>>)

----------------------------------------------------------------------------
(* Callers that multiply a matrix by a vector, alone and after a matrix     *)
(* product: m = a * v, left = (a * b) * v, right = a * (b * v).             *)

InitMulVec ==
    /\ QM_USE_SSE \in BOOLEAN
    /\ op = "init"
    /\ \/ arg \in [a : Factors(3), b : Factors(3), v : Vec3s(-MaxMulV, MaxMulV)]
       \/ arg \in [a : Factors(4), b : Factors(4), v : Vec4s(0, MaxMulV)]
    /\ res = None

CallMulVec3 ==
    /\ op = "init"
    /\ IsMat3(arg.a)
    /\ Return("mul_mat3_vec3",
              [m |-> mul_mat3_vec3(arg.a, arg.v),
               left |-> mul_mat3_vec3(mul_mat3_mat3(arg.a, arg.b), arg.v),
               right |-> mul_mat3_vec3(arg.a, mul_mat3_vec3(arg.b, arg.v))])

CallMulVec4 ==
    /\ op = "init"
    /\ IsMat4(arg.a)
    /\ Return("mul_mat4_vec4",
              [m |-> mul_mat4_vec4(arg.a, arg.v),
               left |-> mul_mat4_vec4(mul_mat4_mat4(arg.a, arg.b), arg.v),
               right |-> mul_mat4_vec4(arg.a, mul_mat4_vec4(arg.b, arg.v))])

NextMulVec == CallMulVec3 \/ CallMulVec4

SpecMulVec == InitMulVec /\ [][NextMulVec]_vars

\* the components of a vector, in order
Components(v, n) == IF n = 3 THEN <<v.x, v.y, v.z>> ELSE <<v.x, v.y, v.z, v.w>>

\* row r of the integer matrix A times the integer components c: the sum over
\* k of A's column k, row r, times c[k]
RECURSIVE RowSum(_, _, _, _)
RowSum(A, c, r, k) ==
    IF k < 0 THEN 0 ELSE A[k][r] * IntOf(c[k + 1]) + RowSum(A, c, r, k - 1)

\* C21: component i of M * v is the sum over k of M.m[k][i] * v[k], for 3x3
\* with QMvec3 and 4x4 with QMvec4, and (A * B) * v = A * (B * v).
C21_MatrixTimesVector ==
    LET n == IF op = "mul_mat3_vec3" THEN 3 ELSE 4
        A == IntMat(arg.a, n)
        c == Components(arg.v, n)
        r == Components(res.m, n)
    IN  op \in {"mul_mat3_vec3", "mul_mat4_vec4"} =>
            /\ \A i \in 0..(n - 1) : r[i + 1] = F(RowSum(A, c, i, n - 1))
            /\ res.left = res.right

\* a dense 4x4 matrix that is not symmetric times (0, 1, 0, 1) in the SSE
\* build: the sum of its columns 1 and 3
C21_Witness ==
    /\ op = "mul_mat4_vec4"
    /\ QM_USE_SSE
    /\ arg.a = Ramp(4, 0)
    /\ arg.b = Ramp(4, 1)
    /\ arg.v = QMvec4(F(0), F(1), F(0), F(1))
    /\ res.m = QMvec4(F(4 + 12), F(5 + 13), F(6 + 14), F(7 + 15))
    /\ res.left = res.right

----------------------------------------------------------------------------
(* Callers that convert unit quaternions and their product to matrices:     *)
(* single = mat4(q1), of_product = mat4(q1 * q2),                           *)
(* product = mat4(q1) * mat4(q2).                                           *)

InitToMat4 ==
    /\ QM_USE_SSE \in BOOLEAN
    /\ op = "init"
    /\ arg \in [q1 : UnitQuats, q2 : UnitQuats]
    /\ res = None

CallQuaternionToMat4 ==
    /\ op = "init"
    /\ Return("QM_quaternion_to_mat4",
              [single |-> QM_quaternion_to_mat4(arg.q1),
               of_product |-> QM_quaternion_to_mat4(mul_quat_quat(arg.q1, arg.q2)),
               product |-> mul_mat4_mat4(QM_quaternion_to_mat4(arg.q1),
                                         QM_quaternion_to_mat4(arg.q2))])

NextToMat4 == CallQuaternionToMat4

SpecToMat4 == InitToMat4 /\ [][NextToMat4]_vars

\* C22: for unit quaternions q1 and q2, QM_quaternion_to_mat4(q1 * q2) is
\* QM_quaternion_to_mat4(q1) * QM_quaternion_to_mat4(q2), and the matrix of
\* the identity quaternion is the identity matrix.
C22_ToMat4RespectsComposition ==
    op = "QM_quaternion_to_mat4" =>
        /\ res.of_product = res.product
        /\ arg.q1 = QM_quaternion_identity => res.single = QM_mat4_identity

----------------------------------------------------------------------------
(* Callers that build the rotation by one angle twice: flat = the 3x3       *)
(* QM_rotate(angle), about_z = QM_top_left of the 4x4 QM_rotate about       *)
(* (0, 0, 1).                                                               *)

InitTurn ==
    /\ QM_USE_SSE \in BOOLEAN
    /\ op = "init"
    /\ arg \in [angle : {F(45 * k) : k \in (-MaxTurn)..MaxTurn}]
    /\ res = None

CallTopLeft ==
    /\ op = "init"
    /\ Return("QM_top_left",
              [flat |-> QM_rotate_angle(arg.angle),
               about_z |-> QM_top_left(QM_rotate_axis(QMvec3(F(0), F(0), F(1)), arg.angle))])

NextTurn == CallTopLeft

SpecTurn == InitTurn /\ [][NextTurn]_vars

\* C23: for every angle a, the top-left 2x2 block of the 3x3 QM_rotate(a)
\* equals the top-left 2x2 block of QM_top_left(QM_rotate((0,0,1), a)).
C23_RotationsTurnTheSameWay ==
    op = "QM_top_left" =>
        \A c \in 0..1 : \A r \in 0..1 : res.flat[c][r] = res.about_z[c][r]

=============================================================================
